---------------------------- MODULE Spec2Model ----------------------------
(***************************************************************************)
(* Model of the influencer auto-tracking backend (Stock-P-L):              *)
(*   - the pending-review state machine and its approval endpoints         *)
(*     (app/api/endpoints/auto_tracking.py),                               *)
(*   - the tracking pipeline and its deduplication ledger                  *)
(*     (app/services/auto_tracker.py, table scraped_posts),                *)
(*   - the normalisation of the oracle's extraction output                 *)
(*     (app/services/sentiment_analyzer.py).                               *)
(*                                                                         *)
(* Every db.execute is one atomic step (DuckDB autocommits each statement  *)
(* on the shared connection, app/db/session.py); a handler is a sequence   *)
(* of such steps and handlers interleave between them: the `def` endpoints *)
(* run on the thread pool, the `async def` endpoints on the event loop.    *)
(* Dates and timestamps are day numbers; the quote cache                   *)
(* (app/services/price_cache.py) counts seconds.                           *)
(***************************************************************************)
EXTENDS Integers, Sequences, FiniteSets, TLC

VARIABLES
    reviews,    \* table pending_reviews: id -> row
    nextId,     \* ids handed out so far + 1 (uuid4 never repeats)
    recs,       \* table influencer_recommendations, in insertion order
    now,        \* the clock, datetime.now()
    hs,         \* the review endpoints' requests: handler -> frame
    faults,     \* number of store failures so far
    ledger,     \* table scraped_posts, in insertion order
    runs,       \* the tracking invocations: run -> frame
    ex_in,      \* an extraction output of the oracle (the parsed JSON)
    ex_out,     \* what extract_assets made of it
    fn_in,      \* the argument of a function of the scraper, the price lookup or the cache
    fn_out,     \* what the function returned for it
    cache       \* table prices of the quote cache: symbol -> row

vars == <<reviews, nextId, recs, now, hs, faults, ledger, runs, ex_in, ex_out, fn_in, fn_out,
          cache>>

\* the tracking pipeline's own state, and the extraction check's
tVars == <<ledger, runs>>
xVars == <<ex_in, ex_out, fn_in, fn_out>>

----------------------------------------------------------------------------
(* Bounds of the model *)

MaxReviews == 2
MaxDay == 1
NumHandlers == 2
MaxFaults == 1

----------------------------------------------------------------------------
(* Values *)

NoDate == 0 - 1
NoTime == 0 - 1
NoConf == 0 - 1
NoId == 0

Handlers == 1..NumHandlers
Days == 0..MaxDay
PostDates == {NoDate, 0}
\* confidence in tenths; NoConf is SQL NULL
Confs == {3, 7}
\* AutoApproveRequest.threshold, in tenths
Thresholds == {7}
Timeframes == {"SHORT", "MID", "LONG"}
NoTf == "none"

----------------------------------------------------------------------------
(* influencers.py: calculate_expiry_date *)

ExpiryWrongOffset(rec_date, timeframe) ==
    IF timeframe = "SHORT" THEN rec_date + 7
    ELSE IF timeframe = "MID" THEN rec_date + 30
    ELSE rec_date + 90

calculate_expiry_date(rec_date, timeframe) ==
    IF timeframe = "SHORT" THEN rec_date + 7
    ELSE IF timeframe = "MID" THEN rec_date + 28
    ELSE rec_date + 90


----------------------------------------------------------------------------
(* sentiment_analyzer.py: extract_assets, on the parsed oracle output *)

MaxAssets == 2

\* a key the JSON object does not have, and JSON null
Absent == "<absent>"
Null == "<null>"

VALID_SIGNALS == {"BUY", "SELL", "HEDGE", "WATCH", "CLOSED"}

RawSymbols == {"NVDA", "AAPL", "", "None", "N/A", "null", Absent, Null}
RawSignals == {"BUY", "sell", "Hedge", "WATCH", "CLOSED", "HOLD", "hold",
               "LONG", "", Absent, Null}
RawAssets == [symbol : RawSymbols, signal : RawSignals]

\* str.upper() on the signal and symbol strings of the model
Upper(x) ==
    CASE x = "sell" -> "SELL"
      [] x = "Hedge" -> "HEDGE"
      [] x = "hold" -> "HOLD"
      [] x = "aapl" -> "AAPL"
      [] x = "msft" -> "MSFT"
      [] OTHER -> x

SymbolKeptAlways(a) == TRUE

\* a.get("symbol", ""), then: if sym and sym not in ["None", "N/A", "", "null"]
SymbolKept(a) ==
    LET sym == IF a.symbol = Absent THEN "" ELSE a.symbol
    IN sym # Null /\ sym # "" /\ sym \notin {"None", "N/A", "", "null"}

\* lines 229-235: signal = a.get("signal", "BUY").upper(), coerced into
\* VALID_SIGNALS (not defined for null: None has no upper())
NormalizeSignal(a) ==
    LET signal == Upper(IF a.signal = Absent THEN "BUY" ELSE a.signal)
    IN IF signal \notin VALID_SIGNALS
       THEN IF signal = "HOLD" THEN "WATCH" ELSE "BUY"
       ELSE signal

RECURSIVE ValidAssets(_, _)
\* lines 224-237: the loop over the assets; acc is valid_assets so far.
\* A null signal on a kept asset raises AttributeError out of the loop.
ValidAssets(assets, acc) ==
    IF assets = <<>> THEN [raised |-> FALSE, assets |-> acc]
    ELSE LET a == Head(assets)
         IN IF ~SymbolKept(a) THEN ValidAssets(Tail(assets), acc)
            ELSE IF a.signal = Null THEN [raised |-> TRUE, assets |-> <<>>]
            ELSE ValidAssets(Tail(assets),
                             Append(acc, [a EXCEPT !.signal = NormalizeSignal(a)]))

\* lines 214-245. result is the output of _call_model: an error, or the
\* parsed object whose "assets" is a list, one object (shape "dict") or
\* missing
extract_assets(result) ==
    IF result.error THEN [raised |-> FALSE, error |-> TRUE, assets |-> <<>>]
    ELSE LET v == ValidAssets(result.assets, <<>>)
         IN [raised |-> v.raised, error |-> FALSE, assets |-> v.assets]

RECURSIVE SeqsUpTo(_, _)
SeqsUpTo(S, n) ==
    IF n = 0 THEN {<<>>}
    ELSE LET shorter == SeqsUpTo(S, n - 1)
         IN shorter \cup {Append(q, x) : q \in shorter, x \in S}

ExtractInputs ==
    {[error |-> TRUE, shape |-> "none", assets |-> <<>>]}
    \cup {[error |-> FALSE, shape |-> "list", assets |-> q] : q \in SeqsUpTo(RawAssets, MaxAssets)}
    \cup {[error |-> FALSE, shape |-> "dict", assets |-> <<a>>] : a \in RawAssets}
    \cup {[error |-> FALSE, shape |-> "absent", assets |-> <<>>]}

Extract ==
    /\ ex_out = <<>>
    /\ ex_out' = <<extract_assets(ex_in)>>
    /\ UNCHANGED <<cache, reviews, nextId, recs, now, hs, faults, tVars, ex_in, fn_in, fn_out>>

InitExtract ==
    /\ reviews = <<>> /\ nextId = 1 /\ recs = <<>> /\ now = 0
    /\ hs = <<>> /\ faults = 0 /\ ledger = <<>> /\ runs = <<>>
    /\ ex_in \in ExtractInputs
    /\ ex_out = <<>>
    /\ fn_in = <<>> /\ fn_out = <<>> /\ cache = <<>>

NextExtract == Extract

SpecExtract == InitExtract /\ [][NextExtract]_vars

\* what the claim says of one signal value
ClaimedSignal(x) ==
    LET u == IF x \in {Absent, Null} THEN "" ELSE Upper(x)
    IN IF u \in {"BUY", "SELL", "HEDGE", "WATCH", "CLOSED"} THEN u
       ELSE IF u = "HOLD" THEN "WATCH" ELSE "BUY"

ClaimedKept(a) == a.symbol \notin {Absent, Null, "", "None", "N/A", "null"}

RECURSIVE ClaimedAssets(_)
ClaimedAssets(assets) ==
    IF assets = <<>> THEN <<>>
    ELSE LET rest == ClaimedAssets(Tail(assets))
             a == Head(assets)
         IN IF ClaimedKept(a)
            THEN <<[a EXCEPT !.signal = ClaimedSignal(a.signal)]>> \o rest
            ELSE rest

\* C10: for every extraction output of the oracle, extract_assets returns
\* exactly the assets whose symbol is present and not in {"", "None", "N/A",
\* "null"}, in their order, each signal kept if it is (case-insensitively)
\* one of BUY, SELL, HEDGE, WATCH, CLOSED, HOLD turned into WATCH, and any
\* other or missing value turned into BUY.
C10_ExtractAssets ==
    (ex_out # <<>> /\ ~ex_in.error)
        => /\ ~ex_out[1].raised
           /\ ex_out[1].assets = ClaimedAssets(ex_in.assets)

\* the same for outputs whose signals are all strings or missing
ExtractAssetsOnStringSignals ==
    (ex_out # <<>> /\ ~ex_in.error
      /\ \A k \in 1..Len(ex_in.assets) : ex_in.assets[k].signal # Null)
        => /\ ~ex_out[1].raised
           /\ ex_out[1].assets = ClaimedAssets(ex_in.assets)

----------------------------------------------------------------------------
(* The pending-review endpoints: app/api/endpoints/auto_tracking.py *)

NoReview == [id |-> NoId, post_date |-> NoDate, tf |-> NoTf, symbol |-> ""]

IdleFrame ==
    [kind |-> "idle", pc |-> "idle", rv |-> NoReview, tfreq |-> NoTf,
     price |-> "none", t0 |-> 0, snap |-> <<>>, approved |-> 0, errs |-> 0,
     result |-> "none", looked |-> FALSE, found |-> FALSE, remaining |-> 0,
     warnings |-> <<>>, fetched |-> <<>>, failed |-> {}, overlap |-> FALSE,
     base |-> 0, threshold |-> NoConf]

\* a handler that has answered: its locals are gone, its answer stays
\* (found is not in the code: whether the request's statement matched a row;
\* nor are fetched, the ids of the rows a batch endpoint selected, failed,
\* the ids whose _approve_review raised, overlap, whether another
\* request ran between this request's first and last statement, and base,
\* the number of recommendations stored when the batch selected its rows)
Answer(f, result) ==
    [IdleFrame EXCEPT !.kind = f.kind, !.pc = "done", !.result = result,
                      !.rv = [NoReview EXCEPT !.id = f.rv.id],
                      !.approved = f.approved, !.errs = f.errs,
                      !.looked = f.looked, !.found = f.found,
                      !.remaining = f.remaining,
                      !.warnings = f.warnings, !.fetched = f.fetched,
                      !.failed = f.failed, !.overlap = f.overlap,
                      !.base = f.base, !.threshold = f.threshold]

\* the columns of a pending_reviews row that _approve_review reads
ReviewDictOf(rows, i) ==
    [id |-> i, post_date |-> rows[i].post_date,
     tf |-> rows[i].suggested_timeframe, symbol |-> rows[i].suggested_symbol]

ReviewDict(i) == ReviewDictOf(reviews, i)

RECURSIVE SortedSeqOf(_, _)
\* ORDER BY created_at: ids are handed out in creation order
SortedSeqOf(rows, S) ==
    IF S = {} THEN <<>>
    ELSE LET m == CHOOSE x \in S : \A y \in S : x <= y
         IN <<ReviewDictOf(rows, m)>> \o SortedSeqOf(rows, S \ {m})

SortedSeq(S) == SortedSeqOf(reviews, S)

\* WHERE status = 'PENDING'
PendingIdsOf(rows) == {i \in DOMAIN rows : rows[i].status = "PENDING"}

PendingIds == PendingIdsOf(reviews)

AutoApproveIdsAnyConfidence(rows, threshold) == PendingIdsOf(rows)

\* WHERE status = 'PENDING' AND confidence >= ?   (NULL >= ? is not true)
AutoApproveIdsOf(rows, threshold) ==
    {i \in PendingIdsOf(rows) : rows[i].confidence # NoConf
                                /\ rows[i].confidence >= threshold}

AutoApproveIds(threshold) == AutoApproveIdsOf(reviews, threshold)

\* _approve_review, lines 397-412: the recommendation date
RecDate(rv, t0) == IF rv.post_date # NoDate THEN rv.post_date ELSE t0

\* _approve_review, line 412: explicit override > suggestion > "MID"
ResolveTimeframe(rv, tfreq) ==
    IF tfreq # NoTf THEN tfreq ELSE IF rv.tf # NoTf THEN rv.tf ELSE "MID"

\* _approve_review, lines 417-451: the entry price is the request's, or
\* else what the market-data lookups give (possibly nothing)
ResolvePrice(override) == IF override THEN "override" ELSE "lookup"

\* _approve_review up to its first write: the locals of the frame
BeginApprove(f, rv, tfreq, override) ==
    [f EXCEPT !.rv = rv, !.tfreq = tfreq, !.t0 = now, !.pc = "insert",
              !.price = ResolvePrice(override),
              !.looked = IF override THEN @ ELSE TRUE]

\* approve_all_pending, line 239: the symbol that starts the error string
WarningKey(rv) == IF rv.symbol \in {"", Null} THEN "unknown" ELSE rv.symbol

AfterApproveStopsAtFailure(f, ok) ==
    IF f.kind = "approve" \/ ~ok
    THEN Answer([f EXCEPT !.errs = IF ok \/ f.kind = "approve" THEN @ ELSE @ + 1],
                IF ok THEN "approved" ELSE "error")
    ELSE LET g == [f EXCEPT !.approved = @ + 1, !.snap = Tail(@)]
         IN IF g.snap = <<>>
            THEN IF f.kind = "auto_approve"
                 THEN [Answer(g, "none") EXCEPT !.pc = "count"]
                 ELSE Answer(g, "ok")
            ELSE [g EXCEPT !.rv = Head(g.snap), !.tfreq = NoTf, !.t0 = now,
                           !.pc = "insert", !.price = "lookup", !.looked = TRUE]

\* what the caller of _approve_review does when it returns (ok) or raises:
\* the single endpoint answers, the batch loops go on to the next row
AfterApprove(f, ok) ==
    IF f.kind = "approve"
    THEN Answer(f, IF ok THEN "approved" ELSE "error")
    ELSE LET g == [f EXCEPT !.approved = IF ok THEN @ + 1 ELSE @,
                            !.errs = IF ok THEN @ ELSE @ + 1,
                            !.warnings = IF ok THEN @ ELSE Append(@, WarningKey(f.rv)),
                            !.failed = IF ok THEN @ ELSE @ \cup {f.rv.id},
                            !.snap = Tail(@)]
         IN IF g.snap = <<>>
            THEN IF f.kind = "auto_approve"
                 THEN [Answer(g, "none") EXCEPT !.pc = "count"]
                 ELSE Answer(g, "ok")
            ELSE BeginApprove(g, Head(g.snap), NoTf, FALSE)

\* a request is between its first and its last statement
InFlight(f) == f.pc \notin {"idle", "done"}

\* the frames h after a step of handler p, with the overlaps noted
Mark(h, p) ==
    [q \in Handlers |->
        IF q = p
        THEN [h[q] EXCEPT !.overlap = @ \/ \E r \in Handlers \ {p} : InFlight(hs[r])]
        ELSE IF InFlight(h[q]) THEN [h[q] EXCEPT !.overlap = TRUE]
        ELSE h[q]]

\* a request can be accepted on handler p
\* (handlers take the requests in order of arrival)
Free(p) == hs[p].pc = "idle" /\ \A q \in Handlers : q < p => hs[q].pc # "idle"

\* the async endpoint runs on the event loop and never awaits: no second
\* call of it starts while one is between its statements
LoopBusy == \E q \in Handlers : hs[q].kind = "approve" /\ hs[q].pc \notin {"idle", "done"}

\* auto_tracker.py _create_pending_review: the INSERT INTO pending_reviews
NewReview(inf, hash, symbol, signal, conf, post_date) ==
    [influencer_id |-> inf, content_hash |-> hash, suggested_symbol |-> symbol,
     suggested_signal |-> signal, suggested_timeframe |-> "MID",
     confidence |-> conf, status |-> "PENDING",
     reviewed_at |-> NoTime, post_date |-> post_date]

\* the confidence column: the oracle's number, or NULL when it sent null
ReviewConfs == Confs \cup {NoConf}

\* the symbols of the candidates, in the order the pipeline stores them
CandidateSymbol(i) == IF i = 1 THEN "NVDA" ELSE "AAPL"

\* the tracking pipeline stores a candidate (the pipeline itself: SpecTrack)
create_pending_review(conf, post_date) ==
    /\ nextId <= MaxReviews
    /\ reviews' = reviews @@ (nextId :> NewReview(1, 1, CandidateSymbol(nextId), "BUY",
                                                  conf, post_date))
    /\ nextId' = nextId + 1
    /\ UNCHANGED <<cache, tVars, xVars, recs, now, hs, faults>>

SelectAnyStatus(rid) == rid \in DOMAIN reviews

\* approve_pending_review: SELECT ... WHERE id = ? AND status = 'PENDING' finds a row
SelectPending(rid) == rid \in PendingIds

\* POST /pending-reviews/{review_id}/approve
approve_pending_review(p, rid, tfreq, override) ==
    /\ Free(p) /\ ~LoopBusy
    /\ hs' = Mark([hs EXCEPT ![p] =
                IF SelectPending(rid)
                THEN BeginApprove([IdleFrame EXCEPT !.kind = "approve"],
                                  ReviewDict(rid), tfreq, override)
                ELSE Answer([IdleFrame EXCEPT !.kind = "approve", !.rv.id = rid],
                            "not_found")], p)
    /\ UNCHANGED <<cache, tVars, xVars, reviews, nextId, recs, now, faults>>

\* the row _approve_review inserts; `review` is not a column: it records
\* which pending review the row came from
NewRec(f) ==
    LET d == RecDate(f.rv, f.t0)
        tf == ResolveTimeframe(f.rv, f.tfreq)
    IN [review |-> f.rv.id, symbol |-> f.rv.symbol,
        timeframe |-> tf, recommendation_date |-> d,
        expiry_date |-> calculate_expiry_date(d, tf), entry_price |-> f.price,
        status |-> "ACTIVE"]

\* _approve_review: INSERT INTO influencer_recommendations
ApproveReviewInsert(p, fail) ==
    /\ hs[p].pc = "insert"
    /\ IF fail
       THEN /\ faults < MaxFaults
            /\ faults' = faults + 1
            /\ recs' = recs
            /\ hs' = Mark([hs EXCEPT ![p] = AfterApprove(@, FALSE)], p)
       ELSE /\ recs' = Append(recs, NewRec(hs[p]))
            /\ hs' = Mark([hs EXCEPT ![p].pc = "update"], p)
            /\ faults' = faults
    /\ UNCHANGED <<cache, tVars, xVars, reviews, nextId, now>>

MarkApprovedAll(rows, id, t) ==
    [i \in DOMAIN rows |-> [rows[i] EXCEPT !.status = "APPROVED", !.reviewed_at = t]]

\* UPDATE pending_reviews SET status = 'APPROVED', reviewed_at = ? WHERE id = ?
MarkApproved(rows, id, t) ==
    IF id \in DOMAIN rows
    THEN [rows EXCEPT ![id].status = "APPROVED", ![id].reviewed_at = t]
    ELSE rows

\* _approve_review: the UPDATE, then the return to the caller
ApproveReviewUpdate(p, fail) ==
    /\ hs[p].pc = "update"
    /\ IF fail
       THEN /\ faults < MaxFaults
            /\ faults' = faults + 1
            /\ reviews' = reviews
            /\ hs' = Mark([hs EXCEPT ![p] = AfterApprove(@, FALSE)], p)
       ELSE /\ reviews' = MarkApproved(reviews, hs[p].rv.id, hs[p].t0)
            /\ hs' = Mark([hs EXCEPT ![p] = AfterApprove(@, TRUE)], p)
            /\ faults' = faults
    /\ UNCHANGED <<cache, tVars, xVars, nextId, recs, now>>

MarkRejectedAnyStatus(rows, id, t) ==
    IF id \in DOMAIN rows
    THEN [rows EXCEPT ![id].status = "REJECTED", ![id].reviewed_at = t]
    ELSE rows

\* UPDATE ... SET status = 'REJECTED', reviewed_at = ? WHERE id = ? AND status = 'PENDING'
MarkRejected(rows, id, t) ==
    IF id \in DOMAIN rows /\ rows[id].status = "PENDING"
    THEN [rows EXCEPT ![id].status = "REJECTED", ![id].reviewed_at = t]
    ELSE rows

\* POST /pending-reviews/{review_id}/reject
reject_pending_review(p, rid) ==
    /\ Free(p)
    /\ reviews' = MarkRejected(reviews, rid, now)
    /\ hs' = Mark([hs EXCEPT ![p] = Answer([IdleFrame EXCEPT !.kind = "reject", !.rv.id = rid,
                                                        !.found = rid \in PendingIds],
                                       "rejected")], p)
    /\ UNCHANGED <<cache, tVars, xVars, nextId, recs, now, faults>>

DeleteRowPendingOnly(rows, id) ==
    IF id \in DOMAIN rows /\ rows[id].status = "PENDING"
    THEN [i \in DOMAIN rows \ {id} |-> rows[i]]
    ELSE rows

\* DELETE FROM pending_reviews WHERE id = ?
DeleteRow(rows, id) == [i \in DOMAIN rows \ {id} |-> rows[i]]

\* DELETE /pending-reviews/{review_id}
delete_pending_review(p, rid) ==
    /\ Free(p)
    /\ reviews' = DeleteRow(reviews, rid)
    /\ hs' = Mark([hs EXCEPT ![p] = Answer([IdleFrame EXCEPT !.kind = "delete", !.rv.id = rid,
                                                        !.found = rid \in DOMAIN reviews],
                                       "deleted")], p)
    /\ UNCHANGED <<cache, tVars, xVars, nextId, recs, now, faults>>

BeginBatchOwnDefaults(kind, rows) ==
    LET f == [IdleFrame EXCEPT !.kind = kind, !.snap = rows,
                               !.fetched = [k \in 1..Len(rows) |-> rows[k].id],
                               !.base = Len(recs)]
    IN IF rows = <<>>
       THEN IF kind = "auto_approve"
            THEN [Answer(f, "none") EXCEPT !.pc = "count"]
            ELSE Answer(f, "ok")
       ELSE [f EXCEPT !.rv = Head(rows), !.tfreq = "SHORT", !.t0 = now,
                      !.pc = "insert", !.price = "none"]

\* a batch endpoint after its SELECT: loop over the fetched rows
BeginBatch(kind, rows) ==
    LET f == [IdleFrame EXCEPT !.kind = kind, !.snap = rows,
                               !.fetched = [k \in 1..Len(rows) |-> rows[k].id],
                               !.base = Len(recs)]
    IN IF rows = <<>>
       THEN IF kind = "auto_approve"
            THEN [Answer(f, "none") EXCEPT !.pc = "count"]
            ELSE Answer(f, "ok")
       ELSE BeginApprove(f, Head(rows), NoTf, FALSE)

\* POST /pending-reviews/approve-all
approve_all_pending(p) ==
    /\ Free(p)
    /\ hs' = Mark([hs EXCEPT ![p] = BeginBatch("approve_all", SortedSeq(PendingIds))], p)
    /\ UNCHANGED <<cache, tVars, xVars, reviews, nextId, recs, now, faults>>

\* POST /pending-reviews/auto-approve: _auto_approve_pending(db, threshold)
auto_approve_pending(p, threshold) ==
    /\ Free(p)
    /\ hs' = Mark([hs EXCEPT ![p] =
                [BeginBatch("auto_approve", SortedSeq(AutoApproveIds(threshold)))
                    EXCEPT !.threshold = threshold]], p)
    /\ UNCHANGED <<cache, tVars, xVars, reviews, nextId, recs, now, faults>>

\* auto_approve_pending: SELECT COUNT(*) ... WHERE status = 'PENDING'
AutoApproveCount(p) ==
    /\ hs[p].pc = "count"
    /\ hs' = Mark([hs EXCEPT ![p].pc = "done", ![p].result = "ok",
                        ![p].remaining = Cardinality(PendingIds)], p)
    /\ UNCHANGED <<cache, tVars, xVars, reviews, nextId, recs, now, faults>>

\* time passes
Tick ==
    /\ now < MaxDay
    /\ now' = now + 1
    /\ UNCHANGED <<cache, tVars, xVars, reviews, nextId, recs, hs, faults>>

InitReview ==
    /\ reviews = <<>>
    /\ nextId = 1
    /\ recs = <<>>
    /\ now = 0
    /\ hs = [p \in Handlers |-> IdleFrame]
    /\ faults = 0
    /\ ledger = <<>>
    /\ runs = <<>>
    /\ ex_in = <<>>
    /\ ex_out = <<>>
    /\ fn_in = <<>> /\ fn_out = <<>> /\ cache = <<>>

NextReview ==
    \/ \E c \in ReviewConfs, d \in PostDates : create_pending_review(c, d)
    \/ \E p \in Handlers, rid \in 1..MaxReviews, tf \in Timeframes \cup {NoTf},
          o \in BOOLEAN : approve_pending_review(p, rid, tf, o)
    \/ \E p \in Handlers, rid \in 1..MaxReviews : reject_pending_review(p, rid)
    \/ \E p \in Handlers, rid \in 1..MaxReviews : delete_pending_review(p, rid)
    \/ \E p \in Handlers : approve_all_pending(p)
    \/ \E p \in Handlers, t \in Thresholds : auto_approve_pending(p, t)
    \/ \E p \in Handlers, x \in BOOLEAN : ApproveReviewInsert(p, x)
    \/ \E p \in Handlers, x \in BOOLEAN : ApproveReviewUpdate(p, x)
    \/ \E p \in Handlers : AutoApproveCount(p)
    \/ Tick

SpecReview == InitReview /\ [][NextReview]_vars


----------------------------------------------------------------------------
(* Properties of the pending-review state machine (SpecReview) *)

\* the recommendations that came from review i
RecsOf(i) == {k \in 1..Len(recs) : recs[k].review = i}

\* no request is between two of its statements
Quiet == \A p \in Handlers : hs[p].pc \in {"idle", "done"}

\* handler p takes a request of this kind in this step
Takes(p, kind) == hs[p].kind = "idle" /\ hs'[p].kind = kind

\* C4: every review is the origin of at most one Recommendation, and, once
\* no request is in flight and no store call has failed, of exactly one if
\* its status is APPROVED and of none if it is PENDING or REJECTED.
C4_OncePerApprovedReview ==
    \A i \in 1..(nextId - 1) :
        /\ Cardinality(RecsOf(i)) <= 1
        /\ (Quiet /\ faults = 0 /\ i \in DOMAIN reviews) =>
               (Cardinality(RecsOf(i)) = 1 <=> reviews[i].status = "APPROVED")

\* C5: APPROVED and REJECTED are terminal: no step changes the status or the
\* reviewed-at of a review that is APPROVED or REJECTED (a step may delete it).
C5_TerminalStatus ==
    [][\A i \in DOMAIN reviews :
          (reviews[i].status \in {"APPROVED", "REJECTED"} /\ i \in DOMAIN reviews')
              => /\ reviews'[i].status = reviews[i].status
                 /\ reviews'[i].reviewed_at = reviews[i].reviewed_at]_vars

\* C6: Approve on an id that is absent or not PENDING answers not-found at
\* once: no Recommendation is written, no market-data lookup is made and
\* the table of reviews is unchanged.
C6_ApproveNotFound ==
    [][\A p \in Handlers :
          (Takes(p, "approve") /\ hs'[p].rv.id \notin PendingIds)
              => /\ hs'[p].pc = "done"
                 /\ hs'[p].result = "not_found"
                 /\ ~hs'[p].looked
                 /\ recs' = recs
                 /\ reviews' = reviews]_vars

C6_Witness ==
    \E p \in Handlers :
        /\ hs[p].kind = "approve" /\ hs[p].result = "not_found"
        /\ hs[p].rv.id \in DOMAIN reviews
        /\ reviews[hs[p].rv.id].status \in {"APPROVED", "REJECTED"}

\* what a Reject request must do to the stored state, whatever it answers
RejectEffect(p) ==
    LET rid == hs'[p].rv.id
    IN /\ recs' = recs
       /\ hs'[p].pc = "done"
       /\ IF rid \in PendingIds
          THEN /\ reviews'[rid].status = "REJECTED"
               /\ reviews'[rid].reviewed_at = now
               /\ \A j \in DOMAIN reviews \ {rid} : reviews'[j] = reviews[j]
               /\ DOMAIN reviews' = DOMAIN reviews
          ELSE reviews' = reviews

C8_DeleteAlways ==
    [][\A p \in Handlers :
          Takes(p, "delete")
              => LET rid == hs'[p].rv.id
                 IN /\ hs'[p].pc = "done" /\ hs'[p].result = "deleted"
                    /\ DOMAIN reviews' = DOMAIN reviews \ {rid}
                    /\ \A j \in DOMAIN reviews' : reviews'[j] = reviews[j]
                    /\ recs' = recs]_vars

\* a Delete has removed an approved review, whose Recommendation stays
C8_Witness ==
    \E p \in Handlers :
        /\ hs[p].kind = "delete" /\ hs[p].result = "deleted" /\ hs[p].found
        /\ hs[p].rv.id \notin DOMAIN reviews
        /\ RecsOf(hs[p].rv.id) # {}

\* C9: the expiry date of every Recommendation written by an approval is its
\* recommendation date plus 7 days (SHORT), 28 days (MID) or 90 days (LONG).
C9_Expiry ==
    \A k \in 1..Len(recs) :
        LET r == recs[k]
        IN /\ r.timeframe \in Timeframes
           /\ r.timeframe = "SHORT" => r.expiry_date - r.recommendation_date = 7
           /\ r.timeframe = "MID" => r.expiry_date - r.recommendation_date = 28
           /\ r.timeframe = "LONG" => r.expiry_date - r.recommendation_date = 90

C9_Witness ==
    /\ \E k \in 1..Len(recs) : recs[k].timeframe = "MID"
    /\ \E k \in 1..Len(recs) : recs[k].timeframe \in {"SHORT", "LONG"}


\* handler p answers a request of this kind in this step
BatchAnswers(p, kind) ==
    hs[p].pc # "done" /\ hs'[p].pc = "done" /\ hs'[p].kind = kind

\* the recommendations of review i that frame f's request wrote, in the
\* store rs (for a request that ran alone)
WrittenFor(f, rs, i) == {k \in (f.base + 1)..Len(rs) : rs[k].review = i}

\* the fetched ids whose approval failed, in the order fetched
FailedSeq(f) == SelectSeq(f.fetched, LAMBDA i : i \in f.failed)

\* C21: when approve-all answers, approved + number of warnings is the
\* number of PENDING reviews it fetched, the reviews were taken oldest
\* first, there is one warning per failed review, in order, starting with
\* its suggested symbol, and (for a request that no other request
\* overlapped) every fetched review whose approval did not fail is APPROVED
\* and got one Recommendation from the request.
C21_ApproveAllIsolates ==
    [][\A p \in Handlers :
          BatchAnswers(p, "approve_all") =>
             LET f == hs'[p]
             IN /\ f.approved + Len(f.warnings) = Len(f.fetched)
                /\ \A k \in 1..(Len(f.fetched) - 1) : f.fetched[k] < f.fetched[k + 1]
                /\ Len(f.warnings) = Len(FailedSeq(f))
                /\ \A k \in 1..Len(f.warnings) :
                       f.warnings[k] = CandidateSymbol(FailedSeq(f)[k])
                /\ ~f.overlap =>
                     \A k \in 1..Len(f.fetched) :
                        f.fetched[k] \notin f.failed =>
                           /\ f.fetched[k] \in DOMAIN reviews'
                           /\ reviews'[f.fetched[k]].status = "APPROVED"
                           /\ Cardinality(WrittenFor(f, recs', f.fetched[k])) = 1]_vars

\* approve-all ran alone on two PENDING reviews; the approval of the first
\* failed and the second is APPROVED with its Recommendation
C21_Witness ==
    \E p \in Handlers :
        /\ DOMAIN reviews = {1, 2}
        /\ hs[p].kind = "approve_all" /\ hs[p].pc = "done"
        /\ ~hs[p].overlap
        /\ hs[p].fetched = <<1, 2>>
        /\ hs[p].failed = {1}
        /\ hs[p].warnings = <<"NVDA">>
        /\ hs[p].approved = 1
        /\ reviews[1].status = "PENDING"
        /\ reviews[2].status = "APPROVED"
        /\ Cardinality(RecsOf(2)) = 1

\* handler p executed a statement in this step
Stepped(p) == [hs'[p] EXCEPT !.overlap = hs[p].overlap] # hs[p]

\* review i is PENDING with a confidence of at least t
AtOrAbove(rows, i, t) ==
    /\ rows[i].status = "PENDING"
    /\ rows[i].confidence # NoConf
    /\ rows[i].confidence >= t

\* C22: auto-approve fetches exactly the PENDING reviews with confidence >=
\* threshold; no statement of the request changes another review or writes
\* a Recommendation for one; when it answers, approved is the number of
\* fetched reviews whose approval did not fail, the remaining count is the
\* number of reviews PENDING at that moment, and (for a request that no
\* other request overlapped) every fetched review whose approval did not
\* fail is APPROVED.
C22_AutoApproveThreshold ==
    [][\A p \in Handlers :
          /\ Takes(p, "auto_approve") =>
                {hs'[p].fetched[k] : k \in 1..Len(hs'[p].fetched)} =
                    {i \in DOMAIN reviews : AtOrAbove(reviews, i, hs'[p].threshold)}
          /\ (hs'[p].kind = "auto_approve" /\ Stepped(p)) =>
                LET ids == {hs'[p].fetched[k] : k \in 1..Len(hs'[p].fetched)}
                IN /\ \A i \in DOMAIN reviews \ ids :
                          i \in DOMAIN reviews' /\ reviews'[i] = reviews[i]
                   /\ \A k \in (Len(recs) + 1)..Len(recs') : recs'[k].review \in ids
          /\ BatchAnswers(p, "auto_approve") =>
                LET f == hs'[p]
                IN /\ f.approved = Len(f.fetched) - Cardinality(f.failed)
                   /\ f.remaining =
                         Cardinality({i \in DOMAIN reviews' : reviews'[i].status = "PENDING"})
                   /\ ~f.overlap =>
                         \A k \in 1..Len(f.fetched) :
                            f.fetched[k] \notin f.failed =>
                               reviews'[f.fetched[k]].status = "APPROVED"]_vars

\* auto-approve ran alone on a review without confidence, which is still
\* PENDING without a Recommendation, and one at the threshold, which is
\* APPROVED; it answered approved 1, remaining 1
C22_Witness ==
    \E p \in Handlers :
        /\ DOMAIN reviews = {1, 2}
        /\ hs[p].kind = "auto_approve" /\ hs[p].pc = "done" /\ ~hs[p].overlap
        /\ hs[p].fetched = <<2>>
        /\ hs[p].approved = 1 /\ hs[p].remaining = 1
        /\ reviews[1].confidence = NoConf /\ reviews[1].status = "PENDING"
        /\ RecsOf(1) = {}
        /\ reviews[2].confidence = hs[p].threshold /\ reviews[2].status = "APPROVED"
        /\ Cardinality(RecsOf(2)) = 1

\* what Approve with an empty request, called at time t, writes for the
\* stored review i: the frame approve_pending_review starts with
SingleApproveFrame(i, t) ==
    [BeginApprove([IdleFrame EXCEPT !.kind = "approve"], ReviewDict(i), NoTf, FALSE)
        EXCEPT !.t0 = t]

Frozen(r) == [r EXCEPT !.status = "", !.reviewed_at = NoTime]

\* the step is a statement of handler p that Approve or Reject aims at
\* review i: the UPDATE of _approve_review, or the UPDATE of Reject
Targets(p, i) ==
    \/ hs[p].pc = "update" /\ Stepped(p) /\ hs[p].rv.id = i
    \/ Takes(p, "reject") /\ hs'[p].rv.id = i

\* C34: no step changes a ledger entry; outside Delete no review
\* disappears and no review changes in a column other than status and
\* reviewed_at; a review changes only in a step of Approve or Reject aimed
\* at it; and storing a new candidate leaves the existing reviews as they
\* are.
C34_ApproveRejectFrame ==
    [][/\ ledger' = ledger
       /\ (\A p \in Handlers : ~Takes(p, "delete")) =>
             \A i \in DOMAIN reviews :
                 /\ i \in DOMAIN reviews'
                 /\ Frozen(reviews'[i]) = Frozen(reviews[i])
                 /\ reviews'[i] # reviews[i] => \E p \in Handlers : Targets(p, i)
       /\ nextId' # nextId =>
             \A i \in DOMAIN reviews : i \in DOMAIN reviews' /\ reviews'[i] = reviews[i]
      ]_vars

\* one review was approved and the other rejected, each at its instant,
\* and both keep the columns they were stored with
C34_Witness ==
    /\ DOMAIN reviews = {1, 2}
    /\ reviews[1].status = "APPROVED" /\ reviews[1].reviewed_at = 0
    /\ reviews[2].status = "REJECTED" /\ reviews[2].reviewed_at = 1
    /\ \A i \in {1, 2} :
          \E c \in ReviewConfs, d \in PostDates :
              Frozen(reviews[i]) = Frozen(NewReview(1, 1, CandidateSymbol(i), "BUY", c, d))
    /\ Cardinality(RecsOf(1)) = 1 /\ RecsOf(2) = {}

\* C37: approval is all-or-nothing: once every request has answered, no
\* review that is still PENDING has a Recommendation, whatever step of
\* _approve_review failed.
C37_ApprovalAllOrNothing ==
    Quiet => \A i \in DOMAIN reviews : reviews[i].status = "PENDING" => RecsOf(i) = {}

\* what holds of C37: an approval that fails at its INSERT (or before it)
\* has written nothing
InsertFailureWritesNothing ==
    [][\A p \in Handlers :
          (hs[p].pc = "insert" /\ Stepped(p) /\ faults' # faults)
          => (recs' = recs /\ reviews' = reviews)]_vars

\* and when no statement failed, no PENDING review has a Recommendation
\* once every request has answered
ApprovalCompleteWithoutFailure ==
    (Quiet /\ faults = 0) =>
        \A i \in DOMAIN reviews : reviews[i].status = "PENDING" => RecsOf(i) = {}

\* single Approve answered with an error after its INSERT: the
\* Recommendation is there and the review is still PENDING
ApprovedHalf ==
    /\ Quiet
    /\ DOMAIN reviews = {1}
    /\ reviews[1].status = "PENDING"
    /\ Cardinality(RecsOf(1)) = 1
    /\ \E p \in Handlers : hs[p].kind = "approve" /\ hs[p].result = "error"

----------------------------------------------------------------------------
(* The tracking pipeline: app/services/auto_tracker.py, and the endpoints  *)
(* /auto-track and /auto-track-all of auto_tracking.py.  Both endpoints    *)
(* are coroutines of one event loop: a step of a run is the code between   *)
(* two awaits (the scrape, and each oracle call handed to a thread).       *)

NumRuns == 2
NumInfluencers == 2
NumHashes == 2
MaxPosts == 2
\* analyze_post calls and scrapes over all runs
MaxAnalyses == 2
MaxScrapes == 2

Runs == 1..NumRuns
Influencers == 1..NumInfluencers
\* a post of the content source, by its content_hash
Hashes == 1..NumHashes
\* what a scrape returns, up to the naming of the posts
Batches == {b \in SeqsUpTo(Hashes, MaxPosts) : b = <<>> \/ b[1] = 1}
\* AutoTrackAllRequest.auto_approve_threshold: None or a threshold
NoThreshold == 0 - 1

\* influencers.platform: the first influencer is followed on Threads, the
\* second on Substack
Platform(inf) == IF inf = 1 THEN "threads" ELSE "substack"

NoDuplicates(b) == \A i \in 1..Len(b), j \in 1..Len(b) : i # j => b[i] # b[j]

\* fetch_threads_posts, lines 132-136: a container whose content_hash is in
\* seen_hashes is skipped, so the posts returned have distinct hashes
fetch_threads_posts == {b \in Batches : NoDuplicates(b)}

\* fetch_substack_posts: one post per entry of the feed, nothing dropped;
\* the hash is the md5 of the content, added by _filter_already_analyzed
fetch_substack_posts == Batches

\* _scrape_posts: the scraper of the platform
scrape_posts(platform) ==
    IF platform = "threads" THEN fetch_threads_posts ELSE fetch_substack_posts

\* the result dict of track_influencer; tried, calls, unrecorded, readfail, prior,
\* conflict and raised are not in the code: the analyze_post calls and
\* the oracle calls made, whether a
\* new post was left without a ledger entry, whether the ledger read
\* failed, whether a run over the same posts of the same influencer had
\* completed (and had recorded them all) when the posts arrived, and
\* whether a ledger insert raised a uniqueness error, and whether an
\* exception left track_influencer instead of the dict
NewResult(inf) ==
    [influencer_id |-> inf, posts |-> <<>>, posts_scraped |-> 0, posts_analyzed |-> 0,
     posts_skipped_duplicate |-> 0, posts_skipped_irrelevant |-> 0,
     recommendations_found |-> 0, pending_review_ids |-> <<>>, errors |-> 0,
     tried |-> 0, calls |-> 0, unrecorded |-> FALSE, readfail |-> FALSE,
     prior |-> FALSE, conflict |-> FALSE, raised |-> FALSE]

\* what happened in the last pass of a run through the loop over its new
\* posts (not in the code): how the oracle answered, how many assets
\* extract_assets returned, the Phase 1 post type, whether the ledger
\* insert failed
NoLast == [kind |-> "none", survivors |-> 0, post_type |-> "none", rf |-> FALSE]

IdleRun ==
    [kind |-> "idle", pc |-> "idle", todo |-> <<>>,
     new |-> <<>>, res |-> NewResult(0), per |-> <<>>, last |-> NoLast]

ClassifyAlwaysInvestment(p1) ==
    [is_investment |-> TRUE, post_type |-> p1.post_type]

\* classify_post on the outcome p1 of the Phase 1 call
classify_post(p1) ==
    IF p1.error THEN [is_investment |-> FALSE, post_type |-> "other"]
    ELSE [is_investment |-> p1.is_investment, post_type |-> p1.post_type]

\* analyze_post on the outcomes of the two oracle calls (p2 is read only
\* when Phase 1 says investment); raised: an exception left analyze_post
analyze_post(p1, p2) ==
    LET c == classify_post(p1)
    IN IF ~c.is_investment
       THEN [raised |-> FALSE, error |-> FALSE, post_type |-> c.post_type,
             assets |-> <<>>, confidence |-> 0, calls |-> 1]
       ELSE LET e == extract_assets(p2)
            IN [raised |-> e.raised, error |-> e.error, post_type |-> c.post_type,
                assets |-> e.assets,
                confidence |-> IF e.error THEN 5 ELSE p2.confidence, calls |-> 2]

\* the row of scraped_posts that _record_scraped_post inserts
LedgerRow(inf, hash, is_investment, post_type) ==
    [influencer_id |-> inf, content_hash |-> hash,
     is_investment_related |-> is_investment, post_type |-> post_type]

HasKey(L, inf, hash) ==
    \E k \in 1..Len(L) : L[k].influencer_id = inf /\ L[k].content_hash = hash

InsertOrReplace(L, row) ==
    [ledger |-> IF HasKey(L, row.influencer_id, row.content_hash)
                THEN [k \in 1..Len(L) |->
                        IF L[k].influencer_id = row.influencer_id
                           /\ L[k].content_hash = row.content_hash
                        THEN row ELSE L[k]]
                ELSE Append(L, row),
     error |-> FALSE]

\* INSERT INTO scraped_posts ... ON CONFLICT (influencer_id, content_hash)
\* DO NOTHING, on the unique index idx_scraped_posts_hash: the table
\* after the statement, and whether the statement raised
InsertIfAbsent(L, row) ==
    [ledger |-> IF HasKey(L, row.influencer_id, row.content_hash) THEN L
                ELSE Append(L, row),
     error |-> FALSE]

RecordWithoutIndex(L, row, fail) ==
    [ledger |-> IF fail THEN L ELSE Append(L, row), error |-> fail, raised |-> FALSE]

RecordRaises(L, row, fail) ==
    [ledger |-> IF HasKey(L, row.influencer_id, row.content_hash) \/ fail THEN L
                ELSE Append(L, row),
     error |-> fail, raised |-> fail]

\* _record_scraped_post: the insert; an exception of the store (fail, or
\* one the statement raises) is logged and swallowed: error.  raised: an
\* exception leaves _record_scraped_post (the try covers the whole body)
record_scraped_post(L, row, fail) ==
    IF fail THEN [ledger |-> L, error |-> TRUE, raised |-> FALSE]
    ELSE [ledger |-> InsertIfAbsent(L, row).ledger,
          error |-> InsertIfAbsent(L, row).error, raised |-> FALSE]

RECURSIVE SelectNewReversed(_, _)
SelectNewReversed(posts, known) ==
    IF posts = <<>> THEN <<>>
    ELSE IF Head(posts) \in known THEN SelectNewReversed(Tail(posts), known)
    ELSE SelectNewReversed(Tail(posts), known) \o <<Head(posts)>>

RECURSIVE SelectNew(_, _)
SelectNew(posts, known) ==
    IF posts = <<>> THEN <<>>
    ELSE IF Head(posts) \in known THEN SelectNew(Tail(posts), known)
    ELSE <<Head(posts)>> \o SelectNew(Tail(posts), known)

FilterFailsClosed(L, inf, posts, fail) ==
    IF fail THEN <<>>
    ELSE SelectNew(posts, {L[k].content_hash : k \in {j \in 1..Len(L) : L[j].influencer_id = inf}})

\* _filter_already_analyzed: the posts whose hash the ledger does not hold
\* for this influencer; every post when the ledger cannot be read
filter_already_analyzed(L, inf, posts, fail) ==
    IF fail THEN posts
    ELSE SelectNew(posts, {L[k].content_hash : k \in {j \in 1..Len(L) : L[j].influencer_id = inf}})

RECURSIVE CreateReviews(_, _, _, _, _, _)
\* track_influencer, lines 81-114: one _create_pending_review per asset;
\* an insert that fails (k in failing) returns None and adds no id.
\* st is [reviews, nextId, res].
CreateReviews(assets, k, failing, inf, hash, st) ==
    IF k > Len(assets) THEN st
    ELSE IF ~SymbolKept(assets[k]) \/ k \in failing THEN CreateReviews(assets, k + 1, failing, inf, hash, st)
    ELSE CreateReviews(assets, k + 1, failing, inf, hash,
            [reviews |-> st.reviews @@
                (st.nextId :> NewReview(inf, hash, assets[k].symbol, assets[k].signal,
                                        st.conf, 0)),
             nextId |-> st.nextId + 1,
             conf |-> st.conf,
             res |-> [st.res EXCEPT !.pending_review_ids = Append(@, st.nextId),
                                    !.recommendations_found = @ + 1]])

ProcessPostUncaught(inf, hash, a, rf, failing, st) ==
    IF a.raised
    THEN [st EXCEPT !.res = [@ EXCEPT !.tried = @ + 1, !.calls = @ + a.calls,
                                      !.raised = TRUE]]
    ELSE [st EXCEPT !.res = [@ EXCEPT !.tried = @ + 1, !.calls = @ + a.calls,
                                      !.posts_analyzed = @ + 1]]

\* track_influencer, lines 54-118: one post of the loop, after its oracle
\* call returned.  rf: the ledger insert fails; failing: the failing
\* pending_reviews inserts.  st is [ledger, reviews, nextId, res].
ProcessPost(inf, hash, a, rf, failing, st) ==
    LET r0 == [st.res EXCEPT !.calls = @ + a.calls, !.tried = @ + 1]
        irrelevant == a.post_type \in {"irrelevant", "lifestyle", "other"} \/ a.assets = <<>>
        row == IF a.error THEN LedgerRow(inf, hash, FALSE, "error")
               ELSE IF irrelevant THEN LedgerRow(inf, hash, FALSE, a.post_type)
               ELSE LedgerRow(inf, hash, TRUE, a.post_type)
        rec == record_scraped_post(st.ledger, row, rf)
    IN IF a.raised
       THEN [st EXCEPT !.res = [r0 EXCEPT !.errors = @ + 1, !.unrecorded = TRUE]]
       ELSE
       LET r1 == [r0 EXCEPT !.posts_analyzed = @ + 1, !.unrecorded = @ \/ rf,
                            !.conflict = @ \/ (rec.error /\ ~rf)]
           \* an exception out of _record_scraped_post would end the pass at
           \* line 116
           caught == IF rec.raised THEN 1 ELSE 0
       IN IF a.error
          THEN [st EXCEPT !.res = [r1 EXCEPT !.errors = @ + 1 + caught],
                          !.ledger = rec.ledger]
          ELSE IF irrelevant
          THEN [st EXCEPT !.res = [r1 EXCEPT !.posts_skipped_irrelevant = @ + 1,
                                             !.errors = @ + caught],
                          !.ledger = rec.ledger]
          ELSE IF rec.raised
          THEN [st EXCEPT !.res = [r1 EXCEPT !.errors = @ + 1], !.ledger = rec.ledger]
          ELSE LET c == CreateReviews(a.assets, 1, failing, inf, hash,
                                      [reviews |-> st.reviews, nextId |-> st.nextId,
                                       conf |-> a.confidence, res |-> r1])
               IN [ledger |-> rec.ledger,
                   reviews |-> c.reviews, nextId |-> c.nextId, res |-> c.res]


\* the oracle's answers to the two calls of one analyze_post
P1Outcomes ==
    {[error |-> TRUE, is_investment |-> FALSE, post_type |-> "other"],
     [error |-> FALSE, is_investment |-> FALSE, post_type |-> "educational"],
     [error |-> FALSE, is_investment |-> TRUE, post_type |-> "single_pick"],
     [error |-> FALSE, is_investment |-> TRUE, post_type |-> "lifestyle"]}

P2Error == [error |-> TRUE, shape |-> "none", assets |-> <<>>, confidence |-> 5]

TrackAssetLists ==
    {<<>>,
     <<[symbol |-> "NVDA", signal |-> "BUY"]>>,
     <<[symbol |-> "AAPL", signal |-> "hold"], [symbol |-> "", signal |-> "BUY"]>>,
     <<[symbol |-> "NVDA", signal |-> Null]>>}

\* the "confidence" the oracle's JSON may carry besides a number of
\* [0, 1], in tenths: a negative number, a number above 1 (a percentage)
NegConfidence == 0 - 2
OverConfidence == 15

P2Outcomes ==
    {P2Error} \cup
    {[error |-> FALSE, shape |-> "list", assets |-> q, confidence |-> c] :
        q \in TrackAssetLists, c \in Thresholds} \cup
    {[error |-> FALSE, shape |-> "list", assets |-> q, confidence |-> c] :
        q \in {<<[symbol |-> "NVDA", signal |-> "BUY"]>>},
        c \in Confs \cup {NegConfidence, OverConfidence}}

\* the answers to the two calls; the second is not made (and not drawn)
\* when the first says not investment
OracleOutcomes ==
    {o \in P1Outcomes \X P2Outcomes : o[1].is_investment \/ o[2] = P2Error}

\* (runs take the requests in order of arrival)
FreeRun(p) == runs[p].pc = "idle" /\ \A q \in Runs : q < p => runs[q].pc # "idle"

\* results of the track_influencer calls that have returned
Completed == UNION {{runs[q].per[k] : k \in 1..Len(runs[q].per)} : q \in Runs}

RECURSIVE SumTried(_)
SumTried(rs) == IF rs = <<>> THEN 0 ELSE Head(rs).tried + SumTried(Tail(rs))

RECURSIVE TriedUpTo(_)
\* analyze_post calls made so far by the runs 1..q
TriedUpTo(q) ==
    IF q = 0 THEN 0
    ELSE runs[q].res.tried + SumTried(runs[q].per) + TriedUpTo(q - 1)

RECURSIVE ScrapedUpTo(_)
\* scrapes that have returned to the runs 1..q
ScrapedUpTo(q) ==
    IF q = 0 THEN 0
    ELSE Len(runs[q].per) + (IF runs[q].pc = "oracle" THEN 1 ELSE 0) + ScrapedUpTo(q - 1)

RECURSIVE AutoApproveFold(_, _)
\* _auto_approve_pending inside trigger_auto_track_all: _approve_review on
\* each fetched row.  st is [reviews, recs].
AutoApproveFold(rows, st) ==
    IF rows = <<>> THEN st
    ELSE AutoApproveFold(Tail(rows),
            [reviews |-> MarkApproved(st.reviews, Head(rows).id, now),
             recs |-> Append(st.recs,
                        NewRec(BeginApprove(IdleFrame, Head(rows), NoTf, FALSE)))])

\* track_influencer has returned r to the endpoint f: /auto-track answers,
\* /auto-track-all goes on to the next influencer
Returned(f, r) ==
    LET g == [f EXCEPT !.per = Append(@, r), !.todo = Tail(@), !.new = <<>>]
    IN IF g.todo = <<>>
       THEN [g EXCEPT !.pc = "done", !.res = NewResult(0)]
       ELSE [g EXCEPT !.pc = "scrape", !.res = NewResult(Head(g.todo))]

\* the step ends the endpoint and the endpoint then auto-approves.  The
\* request's auto_approve_threshold is read only here, after the loop, so
\* the steps draw it where it is read.
TailRuns(f, threshold) == f.kind = "all" /\ Len(f.todo) = 1 /\ threshold # NoThreshold

\* the store after the endpoint's last step: st is [reviews, recs]
AfterTail(f, ends, threshold, st) ==
    IF ends /\ TailRuns(f, threshold)
    THEN AutoApproveFold(SortedSeqOf(st.reviews, AutoApproveIdsOf(st.reviews, threshold)), st)
    ELSE st

\* where a step does not read the threshold, it is not an input of the step
ReadsThreshold(f, ends, threshold) ==
    threshold # NoThreshold => (ends /\ f.kind = "all" /\ Len(f.todo) = 1)


\* POST /auto-track, up to the await of the scrape
trigger_auto_track(p, inf) ==
    /\ FreeRun(p)
    /\ runs' = [runs EXCEPT ![p] = [IdleRun EXCEPT !.kind = "one", !.pc = "scrape",
                                        !.todo = <<inf>>, !.res = NewResult(inf)]]
    /\ UNCHANGED <<cache, reviews, nextId, recs, now, hs, faults, ledger, xVars>>

\* POST /auto-track-all, up to the await of the first scrape
trigger_auto_track_all(p) ==
    /\ FreeRun(p)
    /\ runs' = [runs EXCEPT ![p] = [IdleRun EXCEPT !.kind = "all", !.pc = "scrape",
                                        !.todo = [i \in Influencers |-> i],
                                        !.res = NewResult(1)]]
    /\ UNCHANGED <<cache, reviews, nextId, recs, now, hs, faults, ledger, xVars>>

\* track_influencer, lines 38-51: the scrape returns batch, then the
\* ledger filter (fail: the ledger cannot be read)
ScrapeReturns(p, batch, fail, threshold) ==
    /\ batch \in scrape_posts(Platform(Head(runs[p].todo)))
    /\ fail => (faults < MaxFaults /\ batch # <<>>)
    /\ LET f == runs[p]
           inf == Head(f.todo)
           new == filter_already_analyzed(ledger, inf, batch, fail)
           same == {c \in Completed : c.influencer_id = inf /\ c.posts = batch}
           r == [f.res EXCEPT !.posts = batch, !.posts_scraped = Len(batch),
                              !.posts_skipped_duplicate =
                                    IF batch = <<>> THEN 0 ELSE Len(batch) - Len(new),
                              !.readfail = fail,
                              !.prior = same # {},
                              !.errors = IF batch = <<>> \/ new = <<>> THEN 1 ELSE 0]
           ends == batch = <<>> \/ new = <<>>
       IN /\ ReadsThreshold(f, ends, threshold)
          /\ runs' = [runs EXCEPT ![p] =
                        IF ends THEN Returned(f, r)
                        ELSE [f EXCEPT !.pc = "oracle", !.new = new, !.res = r]]
          /\ \E st \in {AfterTail(f, ends, threshold, [reviews |-> reviews, recs |-> recs])} :
                reviews' = st.reviews /\ recs' = st.recs
    /\ faults' = IF fail THEN faults + 1 ELSE faults
    /\ UNCHANGED <<cache, nextId, now, hs, ledger, xVars>>

ScrapeReturn(p) ==
    /\ runs[p].pc = "scrape"
    /\ ScrapedUpTo(NumRuns) < MaxScrapes
    /\ \E b \in Batches, x \in BOOLEAN, t \in Thresholds \cup {NoThreshold} :
          ScrapeReturns(p, b, x, t)

\* how the oracle answered (p1, p2), for the last field of the run
LastOf(p1, p2, a, rf) ==
    [kind |-> IF p1.error THEN "phase1_failed"
              ELSE IF ~p1.is_investment THEN "not_relevant"
              ELSE IF p2.error THEN "phase2_failed"
              ELSE IF a.raised THEN "malformed"
              ELSE "extracted",
     survivors |-> Len(a.assets), post_type |-> p1.post_type, rf |-> rf]

\* track_influencer, lines 54-120: the oracle call of the current post
\* returns (p1, p2), the post is recorded and its candidates are stored
OracleReturns(p, p1, p2, rf, failing, threshold) ==
    /\ p1.is_investment \/ p2 = P2Error
    /\ faults + (IF rf THEN 1 ELSE 0) + Cardinality(failing) <= MaxFaults
    /\ ReadsThreshold(runs[p], Len(runs[p].new) = 1, threshold)
    /\ \E a \in {analyze_post(p1, p2)} :
          LET f == runs[p]
              inf == Head(f.todo)
              relevant == ~a.raised /\ ~a.error /\ a.assets # <<>>
                          /\ a.post_type \notin {"irrelevant", "lifestyle", "other"}
              ends == Len(f.new) = 1
          IN /\ rf => ~a.raised
             /\ failing \subseteq (IF relevant THEN 1..Len(a.assets) ELSE {})
             /\ \E st \in {ProcessPost(inf, Head(f.new), a, rf, failing,
                                        [ledger |-> ledger, reviews |-> reviews,
                                         nextId |-> nextId, res |-> f.res])} :
                \E fin \in {AfterTail(f, ends, threshold,
                                       [reviews |-> st.reviews, recs |-> recs])} :
                   /\ ledger' = st.ledger
                   /\ nextId' = st.nextId
                   /\ reviews' = fin.reviews
                   /\ recs' = fin.recs
                   /\ runs' = [runs EXCEPT ![p] =
                                 [(IF ends THEN Returned(f, st.res)
                                   ELSE [f EXCEPT !.new = Tail(@), !.res = st.res])
                                  EXCEPT !.last = LastOf(p1, p2, a, rf)]]
    /\ faults' = faults + (IF rf THEN 1 ELSE 0) + Cardinality(failing)
    /\ UNCHANGED <<cache, now, hs, xVars>>

OracleReturn(p) ==
    /\ runs[p].pc = "oracle"
    /\ TriedUpTo(NumRuns) < MaxAnalyses
    /\ \E o \in OracleOutcomes, rf \in BOOLEAN, failing \in SUBSET (1..MaxAssets),
          t \in Thresholds \cup {NoThreshold} :
          OracleReturns(p, o[1], o[2], rf, failing, t)

InitTrack ==
    /\ reviews = <<>> /\ nextId = 1 /\ recs = <<>> /\ now = 0
    /\ hs = <<>> /\ faults = 0
    /\ ledger = <<>>
    /\ runs = [p \in Runs |-> IdleRun]
    /\ ex_in = <<>> /\ ex_out = <<>>
    /\ fn_in = <<>> /\ fn_out = <<>> /\ cache = <<>>

NextTrack ==
    \/ \E p \in Runs, inf \in Influencers : trigger_auto_track(p, inf)
    \/ \E p \in Runs : trigger_auto_track_all(p)
    \/ \E p \in Runs : ScrapeReturn(p)
    \/ \E p \in Runs : OracleReturn(p)

SpecTrack == InitTrack /\ [][NextTrack]_vars


(***************************************************************************)
(* Properties of the ledger and of the tracking runs                       *)
(***************************************************************************)
\* metadata of a ledger entry
Metadata ==
    {[is_investment |-> FALSE, post_type |-> "error"],
     [is_investment |-> FALSE, post_type |-> "educational"],
     [is_investment |-> TRUE, post_type |-> "single_pick"]}

RowOf(s, f, m) == LedgerRow(s, f, m.is_investment, m.post_type)

EntriesFor(L, s, f) ==
    {k \in 1..Len(L) : L[k].influencer_id = s /\ L[k].content_hash = f}

RecordOnce(L, s, f, m) == record_scraped_post(L, RowOf(s, f, m), FALSE)

RecordTwice(L, s, f, m1, m2) ==
    record_scraped_post(RecordOnce(L, s, f, m1).ledger, RowOf(s, f, m2), FALSE)

\* the results of the track_influencer calls, returned or past the filter
Results ==
    Completed \cup {runs[q].res : q \in {x \in Runs : runs[x].pc = "oracle"}}

\* C1 as stated: on every ledger the runs can produce, for every subject s,
\* fingerprint f and metadata m1, m2, recording (s, f) twice leaves the
\* ledger that recording it once leaves, with exactly one entry for (s, f),
\* that entry carrying the metadata m1 of the first call, and the second
\* call raises no error.
C1_FirstCallMetadata ==
    \A s \in Influencers, f \in Hashes, m1 \in Metadata, m2 \in Metadata :
        LET once == RecordOnce(ledger, s, f, m1)
            twice == RecordTwice(ledger, s, f, m1, m2)
        IN /\ twice.ledger = once.ledger
           /\ ~twice.error
           /\ Cardinality(EntriesFor(twice.ledger, s, f)) = 1
           /\ \A k \in EntriesFor(twice.ledger, s, f) : twice.ledger[k] = RowOf(s, f, m1)

\* C1, amended: recording (s, f) twice leaves the ledger that recording it
\* once leaves, with exactly one entry for (s, f) and no error from the
\* second call; the entry carries the metadata of the first call when the
\* ledger held no entry for (s, f) before, and is the entry the ledger
\* already held otherwise.
C1_RecordIdempotent ==
    \A s \in Influencers, f \in Hashes, m1 \in Metadata, m2 \in Metadata :
        LET once == RecordOnce(ledger, s, f, m1)
            twice == RecordTwice(ledger, s, f, m1, m2)
        IN /\ twice.ledger = once.ledger
           /\ ~twice.error
           /\ Cardinality(EntriesFor(twice.ledger, s, f)) = 1
           /\ \A k \in EntriesFor(twice.ledger, s, f) :
                twice.ledger[k] = IF HasKey(ledger, s, f) THEN ledger[k]
                                  ELSE RowOf(s, f, m1)

\* a run has analysed and recorded the same post twice (the batch held it
\* twice) with different outcomes, and the ledger holds one entry for it
C1_Witness ==
    \E r \in Completed :
        /\ r.posts = <<1, 1>> /\ r.posts_analyzed = 2
        /\ r.posts_skipped_irrelevant = 1 /\ r.recommendations_found = 1
        /\ ~r.unrecorded
        /\ Cardinality(EntriesFor(ledger, r.influencer_id, 1)) = 1

\* C2: in every reachable state of overlapping track-one and track-all
\* runs, the ledger holds at most one entry per (influencer_id,
\* content_hash), and no ledger insert of a run raised because the pair had
\* been recorded.
C2_UniqueLedger ==
    /\ \A j \in 1..Len(ledger), k \in 1..Len(ledger) :
          (ledger[j].influencer_id = ledger[k].influencer_id
           /\ ledger[j].content_hash = ledger[k].content_hash) => j = k
    /\ \A r \in Results : ~r.conflict

\* a track-one and a track-all run overlapped on the same post of the same
\* influencer: both found it new, both analysed and recorded it
C2_Witness ==
    \E p \in Runs, q \in Runs :
        /\ runs[p].kind = "one" /\ runs[q].kind = "all"
        /\ \E r1 \in {runs[p].per[k] : k \in 1..Len(runs[p].per)},
              r2 \in {runs[q].per[k] : k \in 1..Len(runs[q].per)} :
              /\ r1.influencer_id = r2.influencer_id
              /\ r1.posts = <<1>> /\ r2.posts = <<1>>
              /\ r1.posts_analyzed = 1 /\ r2.posts_analyzed = 1
              /\ ~r1.readfail /\ ~r2.readfail
              /\ ~r1.unrecorded /\ ~r2.unrecorded
              /\ Cardinality(EntriesFor(ledger, r1.influencer_id, 1)) = 1

\* C3: when no operation of the store has failed, a track_influencer run
\* that gets the posts a completed run for the same influencer had got
\* returns posts_skipped_duplicate = posts_scraped, makes no oracle call
\* and creates no PendingReview.  (The claim makes no exception; the store
\* failures are left out here because the two runs diverge without them.)
C3_RerunIdempotent ==
    \A r \in Results :
        (r.prior /\ faults = 0) =>
            /\ r.posts_skipped_duplicate = r.posts_scraped
            /\ r.calls = 0
            /\ r.recommendations_found = 0

\* C11: in every reachable state of the tracking runs, every stored
\* PendingReview has a suggested signal in {BUY, SELL, HEDGE, WATCH, CLOSED}
\* and a suggested symbol that is present, non-empty and not one of the
\* placeholders "None", "N/A", "null".
C11_StoredCandidates ==
    \A i \in DOMAIN reviews :
        /\ reviews[i].suggested_signal \in VALID_SIGNALS
        /\ reviews[i].suggested_symbol \notin {"", "None", "N/A", "null", Absent, Null}

\* the oracle answered <<AAPL/hold, ""/BUY>>: the one stored candidate of
\* the post is AAPL with signal WATCH
C11_Witness ==
    \E i \in DOMAIN reviews :
        /\ reviews[i].suggested_symbol = "AAPL"
        /\ reviews[i].suggested_signal = "WATCH"
        /\ \A j \in DOMAIN reviews : reviews[j].suggested_symbol = "AAPL"

\* a step of run p through the loop over its new posts: the post it
\* processes, and the run's result after the step
PostStep(p) == runs[p].pc = "oracle" /\ runs'[p] # runs[p]

CurInf(p) == Head(runs[p].todo)

CurHash(p) == Head(runs[p].new)

ResAfter(p) ==
    IF Len(runs'[p].per) > Len(runs[p].per) THEN runs'[p].per[Len(runs'[p].per)]
    ELSE runs'[p].res

\* the (subject, fingerprint) of the post is not in the ledger when the
\* post is processed
NewPost(p) == EntriesFor(ledger, CurInf(p), CurHash(p)) = {}

\* C13: when a run processes a new post that Phase 1 classifies as not
\* relevant, or one whose extraction returns no surviving asset, and the
\* ledger insert goes through, the step creates no PendingReview, leaves
\* exactly one ledger entry for the post's (subject, fingerprint), with
\* relevance flag false, and, in the not-relevant case, makes one oracle
\* call only (no Phase 2 call).
C13_NotRelevantRecorded ==
    [][\A p \in Runs :
          (/\ PostStep(p)
           /\ NewPost(p)
           /\ ~runs'[p].last.rf
           /\ \/ runs'[p].last.kind = "not_relevant"
              \/ runs'[p].last.kind = "extracted" /\ runs'[p].last.survivors = 0)
          => /\ nextId' = nextId
             /\ DOMAIN reviews' = DOMAIN reviews
             /\ ResAfter(p).pending_review_ids = runs[p].res.pending_review_ids
             /\ Cardinality(EntriesFor(ledger', CurInf(p), CurHash(p))) = 1
             /\ \A k \in EntriesFor(ledger', CurInf(p), CurHash(p)) :
                    ~ledger'[k].is_investment_related
             /\ runs'[p].last.kind = "not_relevant"
                    => ResAfter(p).calls = runs[p].res.calls + 1]_vars

\* one run has just processed a post that Phase 1 called educational and
\* another a post whose extraction returned an empty list; the ledger holds
\* the two entries, both with flag false, and no review exists
C13_Witness ==
    /\ \E p \in Runs, q \in Runs :
          /\ runs[p].last.kind = "not_relevant" /\ ~runs[p].last.rf
          /\ runs[q].last.kind = "extracted" /\ ~runs[q].last.rf
          /\ runs[q].last.survivors = 0
          /\ runs[q].last.post_type = "single_pick"
    /\ Len(ledger) = 2
    /\ \A k \in 1..2 : ~ledger[k].is_investment_related
    /\ \E k \in 1..2 : ledger[k].post_type = "educational"
    /\ reviews = <<>>

\* C14: in every run, the posts that passed the filter and still wait for
\* their analyze_post call have pairwise distinct fingerprints: of two posts
\* of the batch with equal fingerprints only one reaches the oracle.
C14_ClassifiedOnce ==
    \A p \in Runs : runs[p].pc = "oracle" => NoDuplicates(runs[p].new)

\* what holds of C14: the runs on the Threads influencer
ThreadsClassifiedOnce ==
    \A p \in Runs :
        (runs[p].pc = "oracle" /\ Platform(Head(runs[p].todo)) = "threads")
            => NoDuplicates(runs[p].new)

\* a run analysed two posts of one batch with one fingerprint and made a
\* review for each
AnalysedTwice ==
    \E r \in Results :
        /\ r.posts = <<1, 1>>
        /\ r.tried = 2
        /\ Len(r.pending_review_ids) = 2

\* the run goes on after the step on post 1 of several: the later posts of
\* the batch are the ones it still has to process
GoesOn(p) ==
    Len(runs[p].new) > 1 =>
        /\ runs'[p].pc = "oracle"
        /\ runs'[p].new = Tail(runs[p].new)
        /\ runs'[p].todo = runs[p].todo

\* C17: when the oracle fails on a new post (Phase 1 or Phase 2 call fails,
\* or the output is malformed) and the ledger insert goes through, the post
\* has a ledger entry after the step, no PendingReview is created, and the
\* run goes on with the later posts of the batch.
C17_OracleFailureRecorded ==
    [][\A p \in Runs :
          (/\ PostStep(p)
           /\ NewPost(p)
           /\ ~runs'[p].last.rf
           /\ runs'[p].last.kind \in {"phase1_failed", "phase2_failed", "malformed"})
          => /\ EntriesFor(ledger', CurInf(p), CurHash(p)) # {}
             /\ nextId' = nextId
             /\ GoesOn(p)]_vars

\* what holds of C17: the failures that _call_model reports as a result
\* with an error key
CallFailureRecorded ==
    [][\A p \in Runs :
          (/\ PostStep(p)
           /\ NewPost(p)
           /\ ~runs'[p].last.rf
           /\ runs'[p].last.kind \in {"phase1_failed", "phase2_failed"})
          => /\ Cardinality(EntriesFor(ledger', CurInf(p), CurHash(p))) = 1
             /\ nextId' = nextId
             /\ GoesOn(p)]_vars

\* and the malformed output never stops the run either, but leaves no entry
MalformedNotRecorded ==
    [][\A p \in Runs :
          (PostStep(p) /\ runs'[p].last.kind = "malformed")
          => /\ ledger' = ledger
             /\ nextId' = nextId
             /\ ResAfter(p).errors = runs[p].res.errors + 1
             /\ ResAfter(p).posts_analyzed = runs[p].res.posts_analyzed
             /\ GoesOn(p)]_vars

\* a run met a malformed answer on the first of two posts and is at the
\* second; the ledger is empty
MalformedSeen ==
    \E p \in Runs :
        /\ runs[p].last.kind = "malformed"
        /\ runs[p].pc = "oracle"
        /\ runs[p].res.posts = <<1, 2>>
        /\ runs[p].new = <<2>>
        /\ ledger = <<>>

\* C18: when the oracle call of Phase 1 or of Phase 2 fails for a new post
\* (and the ledger insert goes through), the post's ledger entry has post
\* type "error", the run's errors list grows by one, and the post is not
\* counted in posts_skipped_irrelevant.
C18_OracleFailureVisible ==
    [][\A p \in Runs :
          (/\ PostStep(p)
           /\ NewPost(p)
           /\ ~runs'[p].last.rf
           /\ runs'[p].last.kind \in {"phase1_failed", "phase2_failed"})
          => /\ \A k \in EntriesFor(ledger', CurInf(p), CurHash(p)) :
                    ledger'[k].post_type = "error"
             /\ EntriesFor(ledger', CurInf(p), CurHash(p)) # {}
             /\ ResAfter(p).errors = runs[p].res.errors + 1
             /\ ResAfter(p).posts_skipped_irrelevant =
                    runs[p].res.posts_skipped_irrelevant]_vars

\* what holds of C18: the failure of the Phase 2 call
Phase2FailureVisible ==
    [][\A p \in Runs :
          (/\ PostStep(p)
           /\ NewPost(p)
           /\ ~runs'[p].last.rf
           /\ runs'[p].last.kind = "phase2_failed")
          => /\ \A k \in EntriesFor(ledger', CurInf(p), CurHash(p)) :
                    ledger'[k].post_type = "error"
             /\ EntriesFor(ledger', CurInf(p), CurHash(p)) # {}
             /\ ResAfter(p).errors = runs[p].res.errors + 1
             /\ ResAfter(p).posts_skipped_irrelevant =
                    runs[p].res.posts_skipped_irrelevant]_vars

\* and what the failure of the Phase 1 call leaves: an entry of type
\* "other", one more skipped-irrelevant post, no error
Phase1FailureHidden ==
    [][\A p \in Runs :
          (/\ PostStep(p)
           /\ NewPost(p)
           /\ ~runs'[p].last.rf
           /\ runs'[p].last.kind = "phase1_failed")
          => /\ \A k \in EntriesFor(ledger', CurInf(p), CurHash(p)) :
                    ledger'[k].post_type = "other"
             /\ EntriesFor(ledger', CurInf(p), CurHash(p)) # {}
             /\ ResAfter(p).errors = runs[p].res.errors
             /\ ResAfter(p).posts_skipped_irrelevant =
                    runs[p].res.posts_skipped_irrelevant + 1]_vars

\* the post of the step is relevant for track_influencer (lines 73, 79)
RelevantStep(p) ==
    /\ runs'[p].last.kind = "extracted"
    /\ runs'[p].last.survivors > 0
    /\ runs'[p].last.post_type \notin {"irrelevant", "lifestyle", "other"}

\* C19: when the ledger insert of a post fails, the step writes no ledger
\* entry and nothing else changes: the post is counted as analysed, a
\* relevant post gets one PendingReview per surviving asset, the errors
\* list grows only by an oracle error of the post, and the run goes on with
\* the later posts of the batch.
C19_LedgerWriteFailure ==
    [][\A p \in Runs :
          (PostStep(p) /\ runs'[p].last.rf)
          => /\ ledger' = ledger
             /\ ResAfter(p).unrecorded
             /\ ResAfter(p).posts_analyzed = runs[p].res.posts_analyzed + 1
             /\ ResAfter(p).errors = runs[p].res.errors +
                    (IF runs'[p].last.kind = "phase2_failed" THEN 1 ELSE 0)
             /\ IF RelevantStep(p)
                THEN /\ nextId' = nextId + runs'[p].last.survivors
                     /\ \A i \in nextId..(nextId' - 1) :
                           /\ i \in DOMAIN reviews'
                           /\ reviews'[i].influencer_id = CurInf(p)
                     /\ ResAfter(p).recommendations_found =
                            runs[p].res.recommendations_found + runs'[p].last.survivors
                ELSE nextId' = nextId
             /\ GoesOn(p)]_vars

\* the insert for the first of two posts failed: the ledger is empty, the
\* post has its review, and the run is at the second post
C19_Witness ==
    \E p \in Runs :
        /\ runs[p].last.rf
        /\ runs[p].last.kind = "extracted" /\ runs[p].last.survivors = 1
        /\ runs[p].pc = "oracle"
        /\ runs[p].res.posts = <<1, 2>> /\ runs[p].new = <<2>>
        /\ runs[p].res.recommendations_found = 1
        /\ ledger = <<>>
        /\ DOMAIN reviews = {1}

\* the step of run p in which its scrape returns and the ledger is read
FilterStep(p) == runs[p].pc = "scrape" /\ runs'[p] # runs[p]

\* C20: when the ledger cannot be read in _filter_already_analyzed, every
\* post of the batch is treated as new: the run goes to the classification
\* of the whole batch, with posts_skipped_duplicate 0 and no error.
C20_LedgerReadFailure ==
    [][\A p \in Runs :
          (FilterStep(p) /\ ResAfter(p).readfail)
          => /\ runs'[p].pc = "oracle"
             /\ runs'[p].todo = runs[p].todo
             /\ runs'[p].new = runs'[p].res.posts
             /\ runs'[p].new # <<>>
             /\ runs'[p].res.posts_scraped = Len(runs'[p].new)
             /\ runs'[p].res.posts_skipped_duplicate = 0
             /\ runs'[p].res.errors = 0
             /\ ledger' = ledger]_vars

\* the read failed for a batch whose first post the ledger holds: the run
\* is about to classify both posts
C20_Witness ==
    \E p \in Runs :
        /\ runs[p].pc = "oracle"
        /\ runs[p].res.readfail
        /\ runs[p].res.tried = 0
        /\ runs[p].new = <<1, 2>>
        /\ runs[p].res.posts_skipped_duplicate = 0
        /\ EntriesFor(ledger, Head(runs[p].todo), 1) # {}

\* a step of the /auto-track-all request p
AllStep(p) == runs[p].kind = "all" /\ runs'[p] # runs[p]

\* the influencers with a URL are tracked one after another: the results
\* in per_influencer are those of the first influencers in order, the run
\* is tracking the next one, and it ends when it has a result for each
OthersTracked(p) ==
    LET n == Len(runs'[p].per)
    IN /\ \A k \in 1..n : runs'[p].per[k].influencer_id = k
       /\ IF runs'[p].pc = "done" THEN n = NumInfluencers
          ELSE n < NumInfluencers /\ Head(runs'[p].todo) = n + 1

\* the step is one in which tracking the current author met a failure of
\* one of the kinds: the source gave no posts, an oracle call failed, or
\* the oracle's output made the analysis raise
FailureStep(p, kinds) ==
    \/ FilterStep(p) /\ ResAfter(p).posts = <<>> /\ "source" \in kinds
    \/ PostStep(p) /\ runs'[p].last.kind \in kinds

\* C24: in a track-all request a failure while tracking one author (the
\* source gives nothing, an oracle call of Phase 1 or Phase 2 fails, the
\* analysis raises) adds to the errors of that author's result, and the
\* request still tracks every author in turn: per_influencer ends with one
\* result per author with a URL.
C24_TrackAllIsolates ==
    [][\A p \in Runs :
          AllStep(p)
          => /\ OthersTracked(p)
             /\ FailureStep(p, {"source", "phase1_failed", "phase2_failed", "malformed"})
                => ResAfter(p).errors > runs[p].res.errors]_vars

\* what holds of C24: every author is tracked whatever happened to the
\* authors before
TrackAllOthersTracked ==
    [][\A p \in Runs : AllStep(p) => OthersTracked(p)]_vars

\* and the failures other than that of the Phase 1 call are in the errors
\* of the author's result
TrackAllFailureRecorded ==
    [][\A p \in Runs :
          (AllStep(p) /\ FailureStep(p, {"source", "phase2_failed", "malformed"}))
          => ResAfter(p).errors > runs[p].res.errors]_vars

\* the Phase 1 call failed for a post of the first author, nothing is in
\* the errors of that author's result, and the second author was tracked
TrackAllPhase1Unrecorded ==
    \E p \in Runs :
        /\ runs[p].kind = "all"
        /\ runs[p].pc = "done"
        /\ Len(runs[p].per) = NumInfluencers
        /\ runs[p].per[1].tried = 1
        /\ runs[p].per[1].posts_skipped_irrelevant = 1
        /\ runs[p].per[1].errors = 0
        /\ \E k \in 1..Len(ledger) :
              ledger[k].influencer_id = 1 /\ ledger[k].post_type = "other"

\* a step of a tracking run: its scrape or one of its oracle calls returns
RunStep(p) == runs[p].pc \in {"scrape", "oracle"} /\ runs'[p] # runs[p]

\* the step hands the result of track_influencer to the endpoint
ReturnsResult(p) == Len(runs'[p].per) = Len(runs[p].per) + 1

\* the counts and lists of the result dict r are all empty
ZeroCounts(r) ==
    /\ r.posts_scraped = 0 /\ r.posts_analyzed = 0
    /\ r.posts_skipped_duplicate = 0 /\ r.posts_skipped_irrelevant = 0
    /\ r.recommendations_found = 0 /\ r.pending_review_ids = <<>>

\* C25: whatever the source, the oracle and the store do, track_influencer
\* goes on to its next post or returns its result dict, and no exception
\* leaves it: the step of the last new post returns the result.  When the
\* source yields no posts the step returns a result with zero counts and
\* one note in errors, no oracle call has been made, and the ledger and
\* the pending reviews are not written.
C25_AlwaysResult ==
    [][\A p \in Runs :
          RunStep(p)
          => /\ ~ResAfter(p).raised
             /\ ResAfter(p).influencer_id = CurInf(p)
             /\ ResAfter(p).posts_scraped = Len(ResAfter(p).posts)
             /\ ReturnsResult(p) \/ (runs'[p].pc = "oracle" /\ runs'[p].new # <<>>)
             /\ (PostStep(p) /\ Len(runs[p].new) = 1) => ReturnsResult(p)
             /\ (FilterStep(p) /\ ResAfter(p).posts = <<>>)
                => /\ ReturnsResult(p)
                   /\ ZeroCounts(ResAfter(p))
                   /\ ResAfter(p).errors = 1
                   /\ ResAfter(p).calls = 0 /\ ResAfter(p).tried = 0
                   /\ ledger' = ledger
                   /\ nextId' = nextId
                   /\ DOMAIN reviews' = DOMAIN reviews]_vars

\* a track-all request has returned: the source of the first author gave
\* nothing, and for the second author the analysis of one post raised on
\* the oracle's output and the ledger insert of the other failed
C25_Witness ==
    \E p \in Runs :
        /\ runs[p].kind = "all" /\ runs[p].pc = "done"
        /\ Len(runs[p].per) = 2
        /\ runs[p].per[1].posts = <<>>
        /\ runs[p].per[1].errors = 1
        /\ ZeroCounts(runs[p].per[1])
        /\ runs[p].per[2].tried = 2
        /\ runs[p].per[2].posts_analyzed = 1
        /\ runs[p].per[2].errors = 1
        /\ faults = 1
        /\ Len(ledger) = 0

\* the ids uuid4 handed out in the step, in order
IdsOfStep == [k \in 1..(nextId' - nextId) |-> nextId + k - 1]

\* the ledger after the step is the ledger before it, or that with one
\* more entry, for the post of the step
LedgerOfStep(p) ==
    \/ ledger' = ledger
    \/ /\ Len(ledger') = Len(ledger) + 1
       /\ SubSeq(ledger', 1, Len(ledger)) = ledger
       /\ ledger'[Len(ledger')].influencer_id = CurInf(p)
       /\ ledger'[Len(ledger')].content_hash = CurHash(p)

\* C27: a run classifies its new posts one at a time in the order of the
\* batch.  The step of a post (its oracle calls returned) writes the
\* ledger entry and the PendingReviews of that post only, after those of
\* the posts before it, and then the run is at the oracle call of the next
\* post of the batch, or returns after the last.
C27_SequentialPosts ==
    [][\A p \in Runs :
          /\ (FilterStep(p) /\ ~ReturnsResult(p))
             => /\ runs'[p].pc = "oracle"
                /\ runs'[p].new =
                      SelectSeq(runs'[p].res.posts,
                                LAMBDA h : \E i \in 1..Len(runs'[p].new) : runs'[p].new[i] = h)
          /\ PostStep(p)
             => /\ LedgerOfStep(p)
                /\ DOMAIN reviews' \ DOMAIN reviews = {IdsOfStep[k] : k \in DOMAIN IdsOfStep}
                /\ \A i \in DOMAIN reviews' \ DOMAIN reviews :
                       /\ reviews'[i].influencer_id = CurInf(p)
                       /\ reviews'[i].content_hash = CurHash(p)
                /\ ResAfter(p).pending_review_ids = runs[p].res.pending_review_ids \o IdsOfStep
                /\ IF Len(runs[p].new) > 1
                   THEN /\ ~ReturnsResult(p)
                        /\ runs'[p].pc = "oracle"
                        /\ runs'[p].new = Tail(runs[p].new)
                   ELSE ReturnsResult(p)]_vars

\* a run has processed a batch of two relevant posts: the ledger entries
\* and the PendingReviews are in the order of the posts
C27_Witness ==
    \E p \in Runs :
        /\ runs[p].pc = "done"
        /\ runs[p].per[1].posts = <<1, 2>>
        /\ runs[p].per[1].pending_review_ids = <<1, 2>>
        /\ DOMAIN reviews = {1, 2}
        /\ reviews[1].content_hash = 1 /\ reviews[2].content_hash = 2
        /\ Len(ledger) = 2
        /\ ledger[1].content_hash = 1 /\ ledger[2].content_hash = 2

\* Phase 1 called the new post of the step investment-related, the
\* extraction returned at least one asset, and no store insert failed
Phase1Relevant(p) ==
    /\ PostStep(p) /\ NewPost(p)
    /\ runs'[p].last.kind = "extracted"
    /\ runs'[p].last.survivors > 0
    /\ faults' = faults

\* the post of the step is stored as relevant: one ledger entry with the
\* relevance flag true, and PendingReviews for it
StoredAsRelevant(p) ==
    /\ EntriesFor(ledger', CurInf(p), CurHash(p)) # {}
    /\ \A k \in EntriesFor(ledger', CurInf(p), CurHash(p)) :
           ledger'[k].is_investment_related
    /\ nextId' > nextId
    /\ \A i \in nextId..(nextId' - 1) :
           i \in DOMAIN reviews' /\ reviews'[i].content_hash = CurHash(p)
    /\ ResAfter(p).posts_skipped_irrelevant = runs[p].res.posts_skipped_irrelevant

\* C28: a new post that Phase 1 flags as investment-related and whose
\* extraction returns at least one asset gets a ledger entry with relevance
\* flag true and its PendingReviews, whatever post type Phase 1 gave it.
C28_Phase1FlagDecides ==
    [][\A p \in Runs : Phase1Relevant(p) => StoredAsRelevant(p)]_vars

\* what holds of C28: the post is stored as relevant when its post type is
\* not one of irrelevant, lifestyle, other
TypedRelevantStored ==
    [][\A p \in Runs :
          (Phase1Relevant(p)
           /\ runs'[p].last.post_type \notin {"irrelevant", "lifestyle", "other"})
          => StoredAsRelevant(p)]_vars

\* and with one of these post types it is skipped as irrelevant: relevance
\* flag false, no PendingReview
TypedIrrelevantSkipped ==
    [][\A p \in Runs :
          (Phase1Relevant(p)
           /\ runs'[p].last.post_type \in {"irrelevant", "lifestyle", "other"})
          => /\ EntriesFor(ledger', CurInf(p), CurHash(p)) # {}
             /\ \A k \in EntriesFor(ledger', CurInf(p), CurHash(p)) :
                    ~ledger'[k].is_investment_related
                    /\ ledger'[k].post_type = runs'[p].last.post_type
             /\ nextId' = nextId /\ DOMAIN reviews' = DOMAIN reviews
             /\ ResAfter(p).posts_skipped_irrelevant =
                    runs[p].res.posts_skipped_irrelevant + 1]_vars

\* a post flagged investment-related with the post type lifestyle and an
\* extracted asset has been skipped
FlaggedPostSkipped ==
    \E p \in Runs :
        /\ runs[p].last.kind = "extracted" /\ runs[p].last.survivors > 0
        /\ runs[p].last.post_type = "lifestyle"
        /\ ~runs[p].last.rf
        /\ Len(ledger) = 1 /\ ~ledger[1].is_investment_related
        /\ reviews = <<>>

\* the step processed a new post and left it in the ledger with the
\* relevance flag true
RecordedRelevant(p) ==
    /\ PostStep(p) /\ NewPost(p)
    /\ EntriesFor(ledger', CurInf(p), CurHash(p)) # {}
    /\ \A k \in EntriesFor(ledger', CurInf(p), CurHash(p)) :
           ledger'[k].is_investment_related

\* the step created one PendingReview per asset extracted from its post,
\* for the post's (subject, fingerprint), and counted each; a review is
\* PENDING, or APPROVED by the auto-approval that ends /auto-track-all
ReviewPerAsset(p) ==
    /\ nextId' - nextId = runs'[p].last.survivors
    /\ \A i \in nextId..(nextId' - 1) :
           /\ i \in DOMAIN reviews'
           /\ reviews'[i].influencer_id = CurInf(p)
           /\ reviews'[i].content_hash = CurHash(p)
           /\ \/ reviews'[i].status = "PENDING"
              \/ runs[p].kind = "all" /\ runs'[p].pc = "done"
                 /\ reviews'[i].status = "APPROVED"
    /\ ResAfter(p).recommendations_found =
           runs[p].res.recommendations_found + runs'[p].last.survivors
    /\ ResAfter(p).recommendations_found = Len(ResAfter(p).pending_review_ids)

\* C29: when a run has processed a new post and recorded it with the
\* relevance flag true, it has created as many PendingReviews for the
\* post's (subject, fingerprint) as assets were extracted from the post,
\* each PENDING, and recommendations_found is the length of
\* pending_review_ids.
C29_ReviewPerAsset ==
    [][\A p \in Runs : RecordedRelevant(p) => ReviewPerAsset(p)]_vars

\* what holds of C29: one review per asset when no insert into
\* pending_reviews fails
ReviewPerAssetStored ==
    [][\A p \in Runs :
          (RecordedRelevant(p) /\ faults' = faults) => ReviewPerAsset(p)]_vars

\* and recommendations_found is always the length of pending_review_ids
RecommendationsCounted ==
    \A p \in Runs :
        /\ runs[p].res.recommendations_found = Len(runs[p].res.pending_review_ids)
        /\ \A k \in 1..Len(runs[p].per) :
               runs[p].per[k].recommendations_found = Len(runs[p].per[k].pending_review_ids)

\* a run has returned: its post is in the ledger with the relevance flag
\* true, one asset was extracted, and there is no PendingReview
ReviewLost ==
    \E p \in Runs :
        /\ runs[p].pc = "done"
        /\ runs[p].last.kind = "extracted" /\ runs[p].last.survivors = 1
        /\ Len(ledger) = 1 /\ ledger[1].is_investment_related
        /\ reviews = <<>>
        /\ runs[p].per[1].recommendations_found = 0
        /\ runs[p].per[1].errors = 0

\* C34, the pipeline's part: no step of a tracking run removes or changes
\* a ledger entry or removes a review; a review changes in status and
\* reviewed_at only, and only in a step in which the endpoint's
\* auto-approval writes Recommendations
PipelineKeepsStore ==
    [][/\ Len(ledger') >= Len(ledger)
       /\ \A k \in 1..Len(ledger) : ledger'[k] = ledger[k]
       /\ \A i \in DOMAIN reviews :
             /\ i \in DOMAIN reviews'
             /\ Frozen(reviews'[i]) = Frozen(reviews[i])
             /\ recs' = recs => reviews'[i] = reviews[i]
      ]_vars

\* C35: every stored PendingReview has a confidence in [0, 1] (in tenths:
\* 0..10), whatever confidence the oracle returned.
C35_ConfidenceInRange ==
    \A i \in DOMAIN reviews : reviews[i].confidence \in 0..10

\* what holds of C35: the stored confidence is one the oracle returned
ConfidenceAsReturned ==
    \A i \in DOMAIN reviews :
        \E o \in P2Outcomes : ~o.error /\ reviews[i].confidence = o.confidence

\* a PENDING review with the confidence 1.5 the oracle returned
ConfidenceAboveOne ==
    \E i \in DOMAIN reviews :
        reviews[i].confidence = OverConfidence /\ reviews[i].status = "PENDING"

RECURSIVE SumTriedOn(_, _)
\* analyze_post calls of the results rs that are on influencer inf
SumTriedOn(rs, inf) ==
    IF rs = <<>> THEN 0
    ELSE (IF Head(rs).influencer_id = inf THEN Head(rs).tried ELSE 0)
         + SumTriedOn(Tail(rs), inf)

RECURSIVE TriedOn(_, _)
\* analyze_post calls made so far on posts of influencer inf by the runs 1..q
TriedOn(inf, q) ==
    IF q = 0 THEN 0
    ELSE SumTriedOn(Append(runs[q].per, runs[q].res), inf) + TriedOn(inf, q - 1)

\* no statement of the store has failed and no analysis has raised: every
\* post a run has processed is in the ledger
StoreInOrder == faults = 0 /\ \A r \in Results : ~r.unrecorded /\ ~r.readfail

\* no two reviews for one (subject, fingerprint, symbol) on influencer inf
OneReviewPerAsset(inf) ==
    \A i, j \in DOMAIN reviews :
        (/\ reviews[i].influencer_id = inf /\ reviews[j].influencer_id = inf
         /\ reviews[i].content_hash = reviews[j].content_hash
         /\ reviews[i].suggested_symbol = reviews[j].suggested_symbol) => i = j

\* C38: however the runs on the Threads influencer interleave, when the
\* store is in order each of its posts has been sent to the oracle at most
\* once (as many analyze_post calls as ledger entries) and there is at most
\* one PendingReview per (subject, fingerprint, asset).
C38_OverlapNoDuplicates ==
    StoreInOrder =>
        /\ TriedOn(1, NumRuns) = Cardinality({h \in Hashes : EntriesFor(ledger, 1, h) # {}})
        /\ OneReviewPerAsset(1)

\* what holds of C38: a single invocation
SingleRunNoDuplicates ==
    (StoreInOrder /\ \A q \in Runs : q > 1 => runs[q].kind = "idle") =>
        /\ TriedOn(1, NumRuns) = Cardinality({h \in Hashes : EntriesFor(ledger, 1, h) # {}})
        /\ OneReviewPerAsset(1)

\* a track-one and a track-all both got post 1 of the Threads influencer
\* before either recorded it: both analysed it and there are two reviews
\* for NVDA
OverlapDuplicates ==
    /\ StoreInOrder
    /\ \E p, q \in Runs :
          /\ runs[p].kind = "one" /\ runs[q].kind = "all"
          /\ Len(runs[p].per) = 1 /\ Len(runs[q].per) >= 1
          /\ runs[p].per[1].influencer_id = 1
          /\ runs[p].per[1].posts = <<1>> /\ runs[q].per[1].posts = <<1>>
          /\ runs[p].per[1].tried = 1 /\ runs[q].per[1].tried = 1
    /\ DOMAIN reviews = {1, 2}
    /\ \A i \in {1, 2} : /\ reviews[i].influencer_id = 1
                         /\ reviews[i].content_hash = 1
                         /\ reviews[i].suggested_symbol = "NVDA"
    /\ Cardinality(EntriesFor(ledger, 1, 1)) = 1

\* the counters of a result agree with each other
Consistent(r) ==
    /\ r.posts_skipped_duplicate + r.posts_analyzed <= r.posts_scraped
    /\ r.posts_skipped_irrelevant <= r.posts_analyzed
    /\ r.recommendations_found = Len(r.pending_review_ids)

\* C39: after every step of a run the counters of its result are
\* consistent: posts_skipped_duplicate + posts_analyzed <= posts_scraped,
\* posts_skipped_irrelevant <= posts_analyzed, recommendations_found is the
\* length of pending_review_ids; the pass over a new post adds one to
\* posts_analyzed or an entry to errors; and a returned result has been
\* through every new post.
C39_CountersConsistent ==
    [][\A p \in Runs :
          RunStep(p)
          => /\ Consistent(ResAfter(p))
             /\ PostStep(p) =>
                   \/ ResAfter(p).posts_analyzed = runs[p].res.posts_analyzed + 1
                   \/ ResAfter(p).errors > runs[p].res.errors
             /\ ReturnsResult(p) =>
                   ResAfter(p).tried
                      = ResAfter(p).posts_scraped - ResAfter(p).posts_skipped_duplicate
      ]_vars

\* a run returned after two new posts: the analysis of one raised (an
\* entry in errors only), the other was analysed and skipped as irrelevant
C39_Witness ==
    \E r \in Completed :
        /\ r.posts_scraped = 2 /\ r.posts_skipped_duplicate = 0
        /\ r.tried = 2
        /\ r.posts_analyzed = 1 /\ r.posts_skipped_irrelevant = 1
        /\ r.errors = 1
        /\ r.recommendations_found = 0

(***************************************************************************)
(* social_scraper.py: _merge_multipart_posts                               *)
(***************************************************************************)
MaxMergePosts == 3
NumAuthors == 2
\* the "24 hour relax constraint" of line 365, in hours
MergeWindow == 24

NoPart == 0 - 1
NoDt == 0 - 1
Authors == 1..NumAuthors
\* (part_num, total_parts) as _clean_threads_post reports them
PartTags == {<<NoPart, NoPart>>, <<1, 2>>, <<2, 2>>, <<1, 3>>, <<3, 3>>}
\* the post's datetime attribute, in hours; NoDt: the post has none
Datetimes == {NoDt, 0, 10, 40}
\* the text of the k-th collected post
TextOf(k) == <<k>>
ParagraphBreak == 0

\* the dicts fetch_threads_posts collects (lines 186-194); the hash is the
\* md5 of the content, a function of it
RawPost(k, author, tag, dt) ==
    [author |-> author, part_num |-> tag[1], total_parts |-> tag[2], datetime |-> dt,
     content |-> TextOf(k), content_hash |-> TextOf(k)]

\* list.sort(key=...): ascending by key, equal keys in their order; keys[i]
\* is the key of q[i]
SortByKey(q, keys) ==
    LET pos(i) == 1 + Cardinality({j \in 1..Len(q) :
                        \/ keys[j] < keys[i]
                        \/ keys[j] = keys[i] /\ j < i})
    IN [k \in 1..Len(q) |-> q[CHOOSE i \in 1..Len(q) : pos(i) = k]]

RECURSIVE AuthorsInOrder(_, _)
\* the keys of author_groups, in insertion order
AuthorsInOrder(q, seen) ==
    IF q = <<>> THEN <<>>
    ELSE IF Head(q).author \in seen THEN AuthorsInOrder(Tail(q), seen)
    ELSE <<Head(q).author>> \o AuthorsInOrder(Tail(q), seen \cup {Head(q).author})

TimeOkAlways(last, cand) == TRUE

\* lines 361-367: both datetimes present and more than 24 hours apart: no
TimeOk(last, cand) ==
    ~(last.datetime # NoDt /\ cand.datetime # NoDt
      /\ (IF cand.datetime >= last.datetime THEN cand.datetime - last.datetime
          ELSE last.datetime - cand.datetime) > MergeWindow)

RECURSIVE ExtendCluster(_, _, _, _)
\* lines 354-378: the while loop that looks for the next part.
\* c is [cluster, used].
ExtendCluster(mp, c, expected_next, last) ==
    LET cands == {j \in 1..Len(mp) : j \notin c.used /\ mp[j].part_num = expected_next
                                      /\ TimeOk(last, mp[j])}
    IN IF cands = {} THEN c
       ELSE LET j == CHOOSE x \in cands : \A y \in cands : x <= y
            IN ExtendCluster(mp, [cluster |-> Append(c.cluster, mp[j]),
                                  used |-> c.used \cup {j}],
                             expected_next + 1, mp[j])

RECURSIVE BuildClusters(_, _, _)
\* lines 340-391: the loop over the sorted multipart posts.
\* st is [used, clusters, reverted].
BuildClusters(mp, i, st) ==
    IF i > Len(mp) THEN st
    ELSE IF i \in st.used \/ mp[i].part_num # 1 THEN BuildClusters(mp, i + 1, st)
    ELSE LET c == ExtendCluster(mp, [cluster |-> <<mp[i]>>, used |-> st.used \cup {i}],
                                2, mp[i])
             expected_total == c.cluster[1].total_parts
             is_complete == ~(expected_total # NoPart /\ expected_total # 0
                              /\ Len(c.cluster) < expected_total)
         IN BuildClusters(mp, i + 1,
                IF Len(c.cluster) > 1 /\ is_complete
                THEN [used |-> c.used, clusters |-> Append(st.clusters, c.cluster),
                      reverted |-> st.reverted]
                ELSE [used |-> c.used, clusters |-> st.clusters,
                      reverted |-> st.reverted \o c.cluster])

RECURSIVE JoinContentsReversed(_)
JoinContentsReversed(cluster) ==
    IF Len(cluster) = 1 THEN cluster[1].content
    ELSE JoinContentsReversed(Tail(cluster)) \o <<ParagraphBreak>> \o cluster[1].content

RECURSIVE JoinContents(_)
\* "\n\n".join(p['content'] for p in cluster)
JoinContents(cluster) ==
    IF Len(cluster) = 1 THEN cluster[1].content
    ELSE cluster[1].content \o <<ParagraphBreak>> \o JoinContents(Tail(cluster))

MergedPostFirstOnly(cluster) == cluster[1]

\* lines 399-408: the first post of the cluster with the joined content
MergedPost(cluster) ==
    [cluster[1] EXCEPT !.content = JoinContents(cluster),
                       !.content_hash = JoinContents(cluster)]

\* lines 315-410: the posts one author contributes to merged_results
MergeAuthor(author_posts) ==
    LET IsPart(x) == x.part_num # NoPart
        IsSingle(x) == x.part_num = NoPart
        parts == SelectSeq(author_posts, IsPart)
        mp == SortByKey(parts, [k \in 1..Len(parts) |-> parts[k].part_num])
        b == BuildClusters(mp, 1, [used |-> {}, clusters |-> <<>>, reverted |-> <<>>])
        unmatched == [k \in 1..Cardinality({j \in 1..Len(mp) : j \notin b.used}) |->
                        mp[CHOOSE j \in 1..Len(mp) :
                              /\ j \notin b.used
                              /\ Cardinality({x \in 1..j : x \notin b.used}) = k]]
    IN SelectSeq(author_posts, IsSingle) \o b.reverted \o unmatched
       \o [k \in 1..Len(b.clusters) |-> MergedPost(b.clusters[k])]

RECURSIVE MergeGroups(_, _)
MergeGroups(posts, authors) ==
    IF authors = <<>> THEN <<>>
    ELSE LET OfAuthor(x) == x.author = Head(authors)
         IN MergeAuthor(SelectSeq(posts, OfAuthor)) \o MergeGroups(posts, Tail(authors))

\* lines 424-426: the temporary fields are popped
Cleaned(post) ==
    [author |-> post.author, content |-> post.content, content_hash |-> post.content_hash]

MergeUnsorted(posts) ==
    LET merged_results == MergeGroups(posts, AuthorsInOrder(posts, {}))
    IN [k \in 1..Len(merged_results) |-> Cleaned(merged_results[k])]

\* _merge_multipart_posts, lines 286-428; the last sort is newest first,
\* posts without a datetime last, equal keys in their order (reverse=True
\* keeps the order of equal elements): ascending on the negated key
merge_multipart_posts(posts) ==
    LET Newest(x) == IF x.datetime = NoDt THEN 1 ELSE 0 - x.datetime
        merged_results == MergeGroups(posts, AuthorsInOrder(posts, {}))
        sorted == SortByKey(merged_results,
                            [k \in 1..Len(merged_results) |-> Newest(merged_results[k])])
    IN [k \in 1..Len(sorted) |-> Cleaned(sorted[k])]

\* fetch_threads_posts, lines 186-194: one more post is collected
Collect(author, tag, dt) ==
    /\ fn_out = <<>>
    /\ Len(fn_in) < MaxMergePosts
    /\ fn_in' = Append(fn_in, RawPost(Len(fn_in) + 1, author, tag, dt))
    /\ UNCHANGED <<cache, reviews, nextId, recs, now, hs, faults, tVars, ex_in, ex_out, fn_out>>

\* fetch_threads_posts, line 215: the collected posts are merged
Merge ==
    /\ fn_out = <<>>
    /\ fn_out' = <<merge_multipart_posts(fn_in)>>
    /\ UNCHANGED <<cache, reviews, nextId, recs, now, hs, faults, tVars, ex_in, ex_out, fn_in>>

InitMerge ==
    /\ reviews = <<>> /\ nextId = 1 /\ recs = <<>> /\ now = 0
    /\ hs = <<>> /\ faults = 0 /\ ledger = <<>> /\ runs = <<>>
    /\ ex_in = <<>> /\ ex_out = <<>>
    /\ fn_in = <<>>
    /\ fn_out = <<>> /\ cache = <<>>

NextMerge ==
    \/ \E author \in Authors, tag \in PartTags, dt \in Datetimes : Collect(author, tag, dt)
    \/ Merge

SpecMerge == InitMerge /\ [][NextMerge]_vars

\* the posts of the batch by author a that carry the tag, and what the
\* merge returned
Tagged(a, tag) ==
    {k \in 1..Len(fn_in) : fn_in[k].author = a /\ fn_in[k].part_num = tag[1]
                           /\ fn_in[k].total_parts = tag[2]}
PartsOf(a) == {k \in 1..Len(fn_in) : fn_in[k].author = a /\ fn_in[k].part_num # NoPart}
Merged == {fn_out[1][k] : k \in 1..Len(fn_out[1])}
JoinedPost(x, y) ==
    [author |-> x.author, content |-> x.content \o <<ParagraphBreak>> \o y.content,
     content_hash |-> x.content \o <<ParagraphBreak>> \o y.content]

\* the batch holds, for author a, part 1 of 2 (x) and part 2 of 2 (y) and
\* no other numbered post: they come back as one post, x's text then y's
MergedAsOne(a, x, y) ==
    /\ JoinedPost(fn_in[x], fn_in[y]) \in Merged
    /\ Cleaned(fn_in[x]) \notin Merged
    /\ Cleaned(fn_in[y]) \notin Merged
    /\ Len(SelectSeq(fn_out[1], LAMBDA p : p.author = a))
         = Len(SelectSeq(fn_in, LAMBDA p : p.author = a)) - 1

\* the numbered posts k of author a come back as they are
Standalone(a, ks) ==
    /\ \A k \in ks : Cleaned(fn_in[k]) \in Merged
    /\ Len(SelectSeq(fn_out[1], LAMBDA p : p.author = a))
         = Len(SelectSeq(fn_in, LAMBDA p : p.author = a))

\* C12 as stated: for one author, parts 1 and 2 with declared total 2 come
\* back as exactly one post, part 1's text followed by part 2's; a lone part
\* with declared total 2 comes back unchanged as a standalone post.
C12_MergeComplete ==
    fn_out # <<>> =>
        \A a \in Authors :
            /\ \A x \in Tagged(a, <<1, 2>>), y \in Tagged(a, <<2, 2>>) :
                  PartsOf(a) = {x, y} => MergedAsOne(a, x, y)
            /\ \A x \in Tagged(a, <<1, 2>>) \cup Tagged(a, <<2, 2>>) :
                  PartsOf(a) = {x} => Standalone(a, {x})

\* C12, amended: parts 1 and 2 with declared total 2 come back as one post,
\* part 1's text then part 2's, unless both carry a datetime and the two are
\* more than 24 hours apart; then, like a lone part, both come back
\* unchanged as standalone posts.
C12_MergeWithinWindow ==
    fn_out # <<>> =>
        \A a \in Authors :
            /\ \A x \in Tagged(a, <<1, 2>>), y \in Tagged(a, <<2, 2>>) :
                  PartsOf(a) = {x, y} =>
                      IF TimeOk(fn_in[x], fn_in[y]) THEN MergedAsOne(a, x, y)
                      ELSE Standalone(a, {x, y})
            /\ \A x \in Tagged(a, <<1, 2>>) \cup Tagged(a, <<2, 2>>) :
                  PartsOf(a) = {x} => Standalone(a, {x})

\* part 2 of 2 was collected before part 1 of 2 (a pinned post), ten hours
\* apart, with a post of another author between them: one merged post
C12_Witness ==
    /\ fn_out # <<>> /\ Len(fn_in) = 3
    /\ fn_in[1].author = 1 /\ fn_in[1].part_num = 2 /\ fn_in[1].datetime = 10
    /\ fn_in[2].author = 2 /\ fn_in[2].part_num = 1 /\ fn_in[2].total_parts = 2
    /\ fn_in[3].author = 1 /\ fn_in[3].part_num = 1 /\ fn_in[3].total_parts = 2
    /\ fn_in[3].datetime = 0
    /\ JoinedPost(fn_in[3], fn_in[1]) \in Merged
    /\ Len(fn_out[1]) = 2

\* the collected posts a post of the output is made of, in the order of
\* its text (the text of the k-th collected post is <<k>>, and the texts
\* of a merged post are joined by the paragraph break)
Members(post) == [i \in 1..((Len(post.content) + 1) \div 2) |-> post.content[2 * i - 1]]

IsMerged(post) == Len(post.content) > 1

\* the members of the merged post are the parts 1, 2, ... of one author
ConsecutiveParts(post) ==
    \A i \in 1..Len(Members(post)) :
        /\ fn_in[Members(post)[i]].part_num = i
        /\ fn_in[Members(post)[i]].author = post.author

\* the collected posts that are members of a merged post of the output
InMerged ==
    {k \in 1..Len(fn_in) :
        \E post \in Merged : IsMerged(post) /\ \E i \in 1..Len(Members(post)) : Members(post)[i] = k}

\* C31: every merged post of the output is made of the parts 1..k of one
\* author with k > 1, and k is the total the first part declares when it
\* declares one; every collected post that is in no merged post is in the
\* output as it is.
C31_MergeOnlyComplete ==
    fn_out # <<>> =>
        /\ \A post \in Merged :
              IsMerged(post) =>
                 /\ ConsecutiveParts(post)
                 /\ fn_in[Members(post)[1]].total_parts # NoPart
                    => Len(Members(post)) = fn_in[Members(post)[1]].total_parts
        /\ \A k \in 1..Len(fn_in) : k \notin InMerged => Cleaned(fn_in[k]) \in Merged

\* what holds of C31: a merged post has at least as many parts as its
\* first part declares
MergeAtLeastTotal ==
    fn_out # <<>> =>
        /\ \A post \in Merged :
              IsMerged(post) =>
                 /\ ConsecutiveParts(post)
                 /\ fn_in[Members(post)[1]].total_parts # NoPart
                    => Len(Members(post)) >= fn_in[Members(post)[1]].total_parts
        /\ \A k \in 1..Len(fn_in) : k \notin InMerged => Cleaned(fn_in[k]) \in Merged

\* parts 1/2, 2/2 and 3/3 of one author came back as one post of three
\* parts
MergedBeyondTotal ==
    /\ fn_out # <<>> /\ Len(fn_in) = 3
    /\ fn_in[1].total_parts = 2 /\ fn_in[1].part_num = 1
    /\ Len(fn_out[1]) = 1
    /\ Members(fn_out[1][1]) = <<1, 2, 3>>

\* the hours between the datetimes of the collected posts x and y
HoursApart(x, y) ==
    IF fn_in[x].datetime >= fn_in[y].datetime THEN fn_in[x].datetime - fn_in[y].datetime
    ELSE fn_in[y].datetime - fn_in[x].datetime

\* C32: in every merged post, two consecutive members that both carry a
\* datetime are at most 24 hours apart; and parts 1/2 and 2/2 of which one
\* carries no datetime are merged on their numbers alone.
C32_MergeTimeWindow ==
    fn_out # <<>> =>
        /\ \A post \in Merged :
              \A i \in 1..(Len(Members(post)) - 1) :
                  LET x == Members(post)[i]  y == Members(post)[i + 1]
                  IN (fn_in[x].datetime # NoDt /\ fn_in[y].datetime # NoDt)
                     => HoursApart(x, y) <= MergeWindow
        /\ \A a \in Authors :
              \A x \in Tagged(a, <<1, 2>>), y \in Tagged(a, <<2, 2>>) :
                  (PartsOf(a) = {x, y}
                   /\ (fn_in[x].datetime = NoDt \/ fn_in[y].datetime = NoDt))
                  => MergedAsOne(a, x, y)

\* part 1/2 with two candidates 2/2, the first 40 hours and the second 10
\* hours later: the first is left as it is, the second is merged
C32_Witness ==
    /\ fn_out # <<>> /\ Len(fn_in) = 3
    /\ \A k \in 1..3 : fn_in[k].author = 1
    /\ fn_in[1].part_num = 1 /\ fn_in[1].datetime = 0
    /\ fn_in[2].part_num = 2 /\ fn_in[2].datetime = 40
    /\ fn_in[3].part_num = 2 /\ fn_in[3].datetime = 10
    /\ JoinedPost(fn_in[1], fn_in[3]) \in Merged
    /\ Cleaned(fn_in[2]) \in Merged

\* the datetime of the k-th returned post: the one of its first member
OutDatetime(k) == fn_in[Members(fn_out[1][k])[1]].datetime

\* C33: the returned posts are ordered newest first by datetime across all
\* authors, and every post without a datetime comes after every post with
\* one.
C33_NewestFirst ==
    fn_out # <<>> =>
        \A i, j \in 1..Len(fn_out[1]) :
            i < j =>
                /\ OutDatetime(i) = NoDt => OutDatetime(j) = NoDt
                /\ (OutDatetime(i) # NoDt /\ OutDatetime(j) # NoDt)
                   => OutDatetime(i) >= OutDatetime(j)

\* two authors; collected without datetime, oldest, newest: returned newest,
\* oldest, without datetime
C33_Witness ==
    /\ fn_out # <<>> /\ Len(fn_in) = 3 /\ Len(fn_out[1]) = 3
    /\ fn_in[1].author = 1 /\ fn_in[2].author = 2 /\ fn_in[3].author = 1
    /\ fn_in[1].datetime = NoDt /\ fn_in[2].datetime = 0 /\ fn_in[3].datetime = 40
    /\ fn_out[1][1] = Cleaned(fn_in[3])
    /\ fn_out[1][2] = Cleaned(fn_in[2])
    /\ fn_out[1][3] = Cleaned(fn_in[1])

\* the collected posts that are the members of the k-th returned post
MemberSet(k) == {Members(fn_out[1][k])[i] : i \in 1..Len(Members(fn_out[1][k]))}

\* C36: merging conserves posts: every collected post is in exactly one
\* returned post, either alone with its content unchanged or as a member of
\* one merged post whose content is the members' contents joined in order.
C36_MergeConserves ==
    fn_out # <<>> =>
        /\ \A x \in 1..Len(fn_in) :
              Cardinality({k \in 1..Len(fn_out[1]) : x \in MemberSet(k)}) = 1
        /\ \A k \in 1..Len(fn_out[1]) :
              /\ MemberSet(k) \subseteq 1..Len(fn_in)
              /\ Cardinality(MemberSet(k)) = Len(Members(fn_out[1][k]))
              /\ fn_out[1][k].content
                     = JoinContents([i \in 1..Len(Members(fn_out[1][k])) |->
                                        fn_in[Members(fn_out[1][k])[i]]])
              /\ ~IsMerged(fn_out[1][k])
                     => fn_out[1][k] = Cleaned(fn_in[Members(fn_out[1][k])[1]])

\* a cluster 1/3, 2 that is shorter than its total is reverted, and both
\* posts come back alone, next to no merged post
C36_Witness ==
    /\ fn_out # <<>> /\ Len(fn_in) = 3
    /\ \A k \in 1..3 : fn_in[k].author = 1
    /\ fn_in[1].part_num = 1 /\ fn_in[1].total_parts = 3
    /\ fn_in[2].part_num = 2 /\ fn_in[3].part_num = NoPart
    /\ Len(fn_out[1]) = 3
    /\ \A k \in 1..3 : Cleaned(fn_in[k]) \in Merged

(***************************************************************************)
(* auto_tracking.py: the entry price of _approve_review                    *)
(***************************************************************************)
\* days of the calendar, as numbers
Today == 10
HistWindow == 5
LiveWindow == 3
RecDates == {0, 6, 7, 8, 9, 10, 11}
Todays == {Today, Today + 1}
NoPrice == 0 - 1
HistClose == 100
HistCloseFar == 101
LivePrice == 200

\* what market_data_service.get_historical_prices answers for the window:
\* an exception, None, a dict without prices, or a list of daily closes
HistAnswers(rec_date) ==
    {[kind |-> "raises", prices |-> <<>>], [kind |-> "none", prices |-> <<>>],
     [kind |-> "dict", prices |-> <<>>]} \cup
    {[kind |-> "dict", prices |-> q] :
        q \in {<<[date |-> rec_date - 1, close |-> HistClose]>>,
               <<[date |-> rec_date + 1, close |-> HistClose],
                 [date |-> rec_date - 1, close |-> HistCloseFar]>>,
               <<[date |-> rec_date + HistWindow, close |-> HistCloseFar],
                 [date |-> rec_date, close |-> HistClose]>>}}

\* what market_data_service.get_quotes answers: an exception, an empty
\* list, or one quote whose regularMarketPrice is missing, 0 or a price
LiveAnswers ==
    {[kind |-> "raises", price |-> NoPrice], [kind |-> "empty", price |-> NoPrice],
     [kind |-> "quote", price |-> NoPrice], [kind |-> "quote", price |-> 0],
     [kind |-> "quote", price |-> LivePrice]}

Abs(x) == IF x < 0 THEN 0 - x ELSE x

RECURSIVE BestMatchLastWins(_, _, _)
BestMatchLastWins(prices, rec_date, best) ==
    IF prices = <<>> THEN best
    ELSE IF best = <<>> \/ Abs(Head(prices).date - rec_date) <= Abs(best[1].date - rec_date)
    THEN BestMatchLastWins(Tail(prices), rec_date, <<Head(prices)>>)
    ELSE BestMatchLastWins(Tail(prices), rec_date, best)

RECURSIVE BestMatch(_, _, _)
\* lines 431-440: the first price of the list at the smallest distance from
\* the recommendation date (best is <<>> while none is chosen)
BestMatch(prices, rec_date, best) ==
    IF prices = <<>> THEN best
    ELSE IF best = <<>> \/ Abs(Head(prices).date - rec_date) < Abs(best[1].date - rec_date)
    THEN BestMatch(Tail(prices), rec_date, <<Head(prices)>>)
    ELSE BestMatch(Tail(prices), rec_date, best)

\* line 445: diff_days <= 3
LiveAllowed(diff_days) == diff_days <= LiveWindow

\* lines 422-425: the window asked of get_historical_prices
NoQuery == [start_date |-> NoPrice, end_date |-> NoPrice]

HistQuery(rec_date) ==
    [start_date |-> rec_date - HistWindow, end_date |-> rec_date + HistWindow]

\* lines 417-451: the entry price of the recommendation.  source says where
\* the price came from, hist_called and live_called which lookups were
\* made, query the window of the historical lookup
EntryPrice(inp) ==
    IF inp.entry_price # NoPrice
    THEN [entry_price |-> inp.entry_price, source |-> "request",
          hist_called |-> FALSE, query |-> NoQuery, live_called |-> FALSE]
    ELSE IF inp.symbol = ""
    THEN [entry_price |-> NoPrice, source |-> "none",
          hist_called |-> FALSE, query |-> NoQuery, live_called |-> FALSE]
    ELSE IF inp.hist.kind = "raises"
    THEN [entry_price |-> NoPrice, source |-> "none",
          hist_called |-> TRUE, query |-> HistQuery(inp.rec_date), live_called |-> FALSE]
    ELSE IF inp.hist.kind = "dict" /\ inp.hist.prices # <<>>
    THEN [entry_price |-> BestMatch(inp.hist.prices, inp.rec_date, <<>>)[1].close,
          source |-> "historical", hist_called |-> TRUE,
          query |-> HistQuery(inp.rec_date), live_called |-> FALSE]
    ELSE IF ~LiveAllowed(inp.today - inp.rec_date)
    THEN [entry_price |-> NoPrice, source |-> "none",
          hist_called |-> TRUE, query |-> HistQuery(inp.rec_date), live_called |-> FALSE]
    ELSE IF inp.live.kind = "quote" /\ inp.live.price \notin {NoPrice, 0}
    THEN [entry_price |-> inp.live.price, source |-> "live",
          hist_called |-> TRUE, query |-> HistQuery(inp.rec_date), live_called |-> TRUE]
    ELSE [entry_price |-> NoPrice, source |-> "none",
          hist_called |-> TRUE, query |-> HistQuery(inp.rec_date), live_called |-> TRUE]

\* an approval reaches the price lookup: the request's entry_price, the
\* symbol, the review's date, the date of the call and the provider
ApprovalArrives(entry_price, symbol, rec_date, today) ==
    /\ fn_in = <<>>
    /\ \E hist \in HistAnswers(rec_date), live \in LiveAnswers :
          fn_in' = <<[entry_price |-> entry_price, symbol |-> symbol,
                      rec_date |-> rec_date, today |-> today,
                      hist |-> hist, live |-> live]>>
    /\ UNCHANGED <<cache, reviews, nextId, recs, now, hs, faults, tVars, ex_in, ex_out, fn_out>>

\* lines 417-451
ResolveEntryPrice ==
    /\ fn_in # <<>> /\ fn_out = <<>>
    /\ fn_out' = <<EntryPrice(fn_in[1])>>
    /\ UNCHANGED <<cache, reviews, nextId, recs, now, hs, faults, tVars, ex_in, ex_out, fn_in>>

InitPrice ==
    /\ reviews = <<>> /\ nextId = 1 /\ recs = <<>> /\ now = 0
    /\ hs = <<>> /\ faults = 0 /\ ledger = <<>> /\ runs = <<>>
    /\ ex_in = <<>> /\ ex_out = <<>> /\ fn_in = <<>> /\ fn_out = <<>> /\ cache = <<>>

NextPrice ==
    \/ \E e \in {NoPrice, HistClose}, s \in {"", "NVDA"}, d \in RecDates, t \in Todays :
          ApprovalArrives(e, s, d, t)
    \/ ResolveEntryPrice

SpecPrice == InitPrice /\ [][NextPrice]_vars

\* the case of C15: no override, a symbol, and the provider answered the
\* historical lookup with no close
NoHistoricalClose(inp) ==
    /\ inp.entry_price = NoPrice /\ inp.symbol # ""
    /\ inp.hist.kind # "raises" /\ inp.hist.prices = <<>>

\* C15 as stated: without an override and without a historical close, the
\* entry price is the live quote only if the recommendation date is one of
\* the last 3 days up to the current date (0 to 3 days back), and when the
\* date is more than 3 days back no live quote is requested and the entry
\* price is unset.
C15_LiveQuoteLastThreeDays ==
    fn_out # <<>> =>
        LET inp == fn_in[1]  out == fn_out[1]  diff_days == inp.today - inp.rec_date
        IN NoHistoricalClose(inp) =>
              /\ out.source = "live" => (0 <= diff_days /\ diff_days <= LiveWindow)
              /\ diff_days > LiveWindow => (~out.live_called /\ out.entry_price = NoPrice)

\* what the code does in that case: the live quote is requested exactly
\* when the date is at most 3 days back, a date after the current date
\* included
LiveQuoteNotOlderThanThreeDays ==
    fn_out # <<>> =>
        LET inp == fn_in[1]  out == fn_out[1]  diff_days == inp.today - inp.rec_date
        IN NoHistoricalClose(inp) =>
              /\ out.live_called <=> diff_days <= LiveWindow
              /\ out.source = "live" => (out.live_called /\ out.entry_price = inp.live.price)
              /\ ~out.live_called => out.entry_price = NoPrice

\* a review dated the day after the current date got the live quote
LiveQuoteForLaterDate ==
    /\ fn_out # <<>>
    /\ NoHistoricalClose(fn_in[1])
    /\ fn_in[1].rec_date = fn_in[1].today + 1
    /\ fn_out[1].entry_price = LivePrice

\* the case of C30: no override, a symbol, and the provider answered the
\* historical lookup with closes
HasHistoricalCloses(inp) ==
    /\ inp.entry_price = NoPrice /\ inp.symbol # ""
    /\ inp.hist.kind = "dict" /\ inp.hist.prices # <<>>

\* the distance in days between the trading date of the k-th close of the
\* provider's list and the recommendation date
Distance(inp, k) == Abs(inp.hist.prices[k].date - inp.rec_date)

Digits == {"1", "2", "3", "5", "9"}
TimeUnits == {"h", "d", "w", "m"}
Handle == "user"

RECURSIVE SkipSpaces(_, _)
\* \s* from position i: the position after the white space
SkipSpaces(t, i) ==
    IF i <= Len(t) /\ t[i] = "_" THEN SkipSpaces(t, i + 1) ELSE i

RECURSIVE SkipDigits(_, _)
\* \d* from position i
SkipDigits(t, i) ==
    IF i <= Len(t) /\ t[i] \in Digits THEN SkipDigits(t, i + 1) ELSE i

RECURSIVE SubCounter(_, _, _)
\* re.sub(r'<word>\s*\d*', '', text): lines 261-265
SubCounter(t, i, word) ==
    IF i > Len(t) THEN <<>>
    ELSE IF t[i] = word THEN SubCounter(t, SkipDigits(t, SkipSpaces(t, i + 1)), word)
    ELSE <<t[i]>> \o SubCounter(t, i + 1, word)

RECURSIVE SubWord(_, _, _)
\* re.sub(r'<word>\s*', '', text): lines 240-241, 260, 266, 272-273
SubWord(t, i, word) ==
    IF i > Len(t) THEN <<>>
    ELSE IF t[i] = word THEN SubWord(t, SkipSpaces(t, i + 1), word)
    ELSE <<t[i]>> \o SubWord(t, i + 1, word)

RECURSIVE SubHandle(_, _)
\* line 257: (Follow\s*)?<username>\s*
SubHandle(t, i) ==
    IF i > Len(t) THEN <<>>
    ELSE IF t[i] = Handle THEN SubHandle(t, SkipSpaces(t, i + 1))
    ELSE IF /\ t[i] = "Follow"
            /\ SkipSpaces(t, i + 1) <= Len(t)
            /\ t[SkipSpaces(t, i + 1)] = Handle
    THEN SubHandle(t, SkipSpaces(t, SkipSpaces(t, i + 1) + 1))
    ELSE <<t[i]>> \o SubHandle(t, i + 1)

\* an optional word and the white space after it
SkipOptional(t, i, word) ==
    IF i <= Len(t) /\ t[i] = word THEN SkipSpaces(t, i + 1) ELSE i

\* \d{1,3}[hdwm] at position i: the number of digits matched, 0 for no match
TimeDigits(t, i) ==
    LET fits(k) == /\ i + k <= Len(t)
                   /\ \A j \in i..(i + k - 1) : t[j] \in Digits
                   /\ t[i + k] \in TimeUnits
    IN IF fits(3) THEN 3 ELSE IF fits(2) THEN 2 ELSE IF fits(1) THEN 1 ELSE 0

RECURSIVE SubTime(_, _)
\* line 269: \d{1,3}[hdwm]\s*(?:Edited\s*)?(?:More\s*)?
SubTime(t, i) ==
    IF i > Len(t) THEN <<>>
    ELSE IF TimeDigits(t, i) > 0
    THEN SubTime(t, SkipOptional(t, SkipOptional(t,
                        SkipSpaces(t, i + TimeDigits(t, i) + 1), "Edited"), "More"))
    ELSE <<t[i]>> \o SubTime(t, i + 1)

RECURSIVE SubEdited(_, _)
\* line 270: Edited\s*(?:More\s*)?
SubEdited(t, i) ==
    IF i > Len(t) THEN <<>>
    ELSE IF t[i] = "Edited"
    THEN SubEdited(t, SkipOptional(t, SkipSpaces(t, i + 1), "More"))
    ELSE <<t[i]>> \o SubEdited(t, i + 1)

\* line 271: ^More\s*
SubLeadingMore(t) ==
    IF t # <<>> /\ t[1] = "More" THEN SubSeq(t, SkipSpaces(t, 2), Len(t)) ELSE t

\* (?<!\d)\d+\s*(?:/|of)\s*\d+(?!\d) at position i: the position after the
\* match, 0 for no match
PartMarkerEnd(t, i) ==
    LET d == SkipDigits(t, i)
        sep == SkipSpaces(t, d)
        n == SkipSpaces(t, sep + 1)
    IN IF /\ t[i] \in Digits
          /\ (i = 1 \/ t[i - 1] \notin Digits)
          /\ sep <= Len(t) /\ t[sep] \in {"/", "of"}
          /\ n <= Len(t) /\ t[n] \in Digits
       THEN SkipDigits(t, n) ELSE 0

RECURSIVE SubPartMarker(_, _)
\* line 276
SubPartMarker(t, i) ==
    IF i > Len(t) THEN <<>>
    ELSE IF PartMarkerEnd(t, i) > 0 THEN SubPartMarker(t, PartMarkerEnd(t, i))
    ELSE <<t[i]>> \o SubPartMarker(t, i + 1)

RECURSIVE SubPartWord(_, _)
\* line 277: (?<!\w)(?:part|day)\s+\d+(?!\d)
SubPartWord(t, i) ==
    IF i > Len(t) THEN <<>>
    ELSE IF /\ t[i] \in {"part", "day"}
            /\ (i = 1 \/ t[i - 1] \in {"_", "(", ")", "/", ".", ","})
            /\ i + 1 <= Len(t) /\ t[i + 1] = "_"
            /\ SkipSpaces(t, i + 1) <= Len(t)
            /\ t[SkipSpaces(t, i + 1)] \in Digits
    THEN SubPartWord(t, SkipDigits(t, SkipSpaces(t, i + 1)))
    ELSE <<t[i]>> \o SubPartWord(t, i + 1)

RECURSIVE ParenNumberAt(_, _)
\* \(\s*\d+\s*\)\s*$ : the leftmost position where it matches, 0 for none
ParenNumberAt(t, i) ==
    IF i > Len(t) THEN 0
    ELSE LET d == SkipSpaces(t, i + 1)
             e == SkipSpaces(t, SkipDigits(t, d))
         IN IF /\ t[i] = "("
               /\ d <= Len(t) /\ t[d] \in Digits
               /\ e <= Len(t) /\ t[e] = ")"
               /\ SkipSpaces(t, e + 1) = Len(t) + 1
            THEN i ELSE ParenNumberAt(t, i + 1)

\* line 278
SubTrailingParen(t) ==
    IF ParenNumberAt(t, 1) > 0 THEN SubSeq(t, 1, ParenNumberAt(t, 1) - 1) ELSE t

RECURSIVE JoinSplit(_, _)
\* line 281: ' '.join(text.split()); pending: white space was passed since
\* the last token written
JoinSplit(t, st) ==
    IF t = <<>> THEN st.out
    ELSE IF Head(t) = "_" THEN JoinSplit(Tail(t), [st EXCEPT !.pending = TRUE])
    ELSE JoinSplit(Tail(t),
            [out |-> st.out \o (IF st.pending /\ st.out # <<>> THEN <<"_">> ELSE <<>>)
                            \o <<Head(t)>>,
             pending |-> FALSE])

\* the list of counter words of lines 261-265, in the order of the code
CounterWords == <<"Like", "Reply", "Repost", "Share", "Comment">>

RECURSIVE SubCounters(_, _)
SubCounters(t, k) ==
    IF k > Len(CounterWords) THEN t
    ELSE SubCounters(SubCounter(t, 1, CounterWords[k]), k + 1)

\* _clean_threads_post: the cleaned text (the part numbers it also returns
\* are read by _merge_multipart_posts and are no part of the hash)
clean_threads_post(text) ==
    LET t0 == SubWord(SubWord(text, 1, "Audio is muted"), 1, "Translate")
        t1 == SubHandle(t0, 1)
        t2 == SubWord(SubCounters(SubWord(t1, 1, "Translate"), 1), 1, "Audio is muted")
        t3 == SubWord(SubWord(SubLeadingMore(SubEdited(SubTime(t2, 1), 1)),
                              1, "Verified"), 1, "Follow")
        t4 == SubTrailingParen(SubPartWord(SubPartMarker(t3, 1), 1))
    IN JoinSplit(t4, [out |-> <<>>, pending |-> FALSE])

\* line 133: hashlib.md5(clean_text.encode()).hexdigest(), a function of the
\* text that keeps different texts of this size apart
content_hash(clean_text) == <<"md5", clean_text>>

\* the canonical texts
CanonTexts ==
    {<<"buy", "_", "nvda">>,
     <<"5", "m", "_", "stocks">>,
     <<"nvda", "_", "target", "_", "1", "2">>,
     <<"i", "_", "Like", "_", "nvda", "_", "(", "1", "/", "2", ")">>}

\* the inline relative timestamps: 2h, 12d, 1w
Timestamps == {<<"2", "h">>, <<"1", "2", "d">>, <<"1", "w">>}

\* a counter as the page prints it: nothing for zero, the digits, or an
\* abbreviated count (1.2K)
CounterValues == {<<>>, <<"9">>, <<"1", "2">>, <<"1", ".", "2", "K">>}
PlainCounterValues == {v \in CounterValues : \A k \in 1..Len(v) : v[k] \in Digits}
ReplyValues == {<<>>, <<"3">>}

\* the UI chrome present in a rendering
Chromes ==
    {[follow |-> FALSE, verified |-> FALSE, edited |-> FALSE, more |-> FALSE, translate |-> FALSE],
     [follow |-> TRUE, verified |-> TRUE, edited |-> TRUE, more |-> TRUE, translate |-> TRUE],
     [follow |-> FALSE, verified |-> FALSE, edited |-> TRUE, more |-> FALSE, translate |-> TRUE],
     [follow |-> TRUE, verified |-> FALSE, edited |-> FALSE, more |-> TRUE, translate |-> FALSE]}

Opt(b, word) == IF b THEN <<word>> ELSE <<>>

\* container.text_content() of a post (line 121): the header (handle, time
\* and metadata block), the text, the action bar
Render(canon, chrome, time, likes, replies) ==
    Opt(chrome.follow, "Follow") \o <<Handle>> \o Opt(chrome.verified, "Verified")
    \o time \o Opt(chrome.edited, "Edited") \o Opt(chrome.more, "More")
    \o canon \o Opt(chrome.translate, "Translate")
    \o <<"Like">> \o likes \o <<"Reply">> \o replies \o <<"Repost", "Share">>

\* the page is read: one rendering of a post
ReadPage(canon, chrome, time, likes, replies) ==
    /\ fn_out = <<>>
    /\ Len(fn_in) < 2
    /\ fn_in # <<>> => fn_in[1].canon = canon
    /\ fn_in' = Append(fn_in, [canon |-> canon, likes |-> likes,
                               text |-> Render(canon, chrome, time, likes, replies)])
    /\ UNCHANGED <<cache, reviews, nextId, recs, now, hs, faults, tVars, ex_in, ex_out, fn_out>>

\* lines 127-133: the two renderings are cleaned and hashed
CleanPosts ==
    /\ Len(fn_in) = 2 /\ fn_out = <<>>
    /\ fn_out' = [k \in 1..2 |->
                    [clean_text |-> clean_threads_post(fn_in[k].text),
                     content_hash |-> content_hash(clean_threads_post(fn_in[k].text))]]
    /\ UNCHANGED <<cache, reviews, nextId, recs, now, hs, faults, tVars, ex_in, ex_out, fn_in>>

InitClean ==
    /\ reviews = <<>> /\ nextId = 1 /\ recs = <<>> /\ now = 0
    /\ hs = <<>> /\ faults = 0 /\ ledger = <<>> /\ runs = <<>>
    /\ ex_in = <<>> /\ ex_out = <<>> /\ fn_in = <<>> /\ fn_out = <<>> /\ cache = <<>>

NextClean ==
    \/ \E canon \in CanonTexts, chrome \in Chromes, time \in Timestamps,
          likes \in CounterValues, replies \in ReplyValues :
          ReadPage(canon, chrome, time, likes, replies)
    \/ CleanPosts

SpecClean == InitClean /\ [][NextClean]_vars

\* C16: two renderings of one canonical text that differ only in counter
\* values, relative timestamps and UI chrome are cleaned to the same text
\* and get the same content hash.
C16_FingerprintInvariance ==
    fn_out # <<>> =>
        /\ fn_out[1].clean_text = fn_out[2].clean_text
        /\ fn_out[1].content_hash = fn_out[2].content_hash

\* what holds: the invariance for counters printed as plain digits
PlainCounterInvariance ==
    (fn_out # <<>> /\ \A k \in 1..2 : fn_in[k].likes \in PlainCounterValues) =>
        /\ fn_out[1].clean_text = fn_out[2].clean_text
        /\ fn_out[1].content_hash = fn_out[2].content_hash

\* the same post with 12 likes and with 1.2K likes: two hashes
AbbreviatedCounterSplits ==
    /\ fn_out # <<>>
    /\ fn_in[1].likes = <<"1", "2">>
    /\ fn_in[2].likes = <<"1", ".", "2", "K">>
    /\ fn_out[1].clean_text = <<"buy", "_", "nvda">>
    /\ fn_out[2].clean_text = <<"buy", "_", "nvda", ".", "2", "K">>
    /\ fn_out[1].content_hash # fn_out[2].content_hash

(***************************************************************************)
(* price_cache.py: PriceCacheService, with CacheConfig of models/cache.py  *)
(* The clock counts seconds from a Monday 00:00 UTC.  The store keeps the  *)
(* timestamp it is given.                                                  *)
(***************************************************************************)
MaxQuotes == 2
MaxSymbols == 2
\* the longest time between two calls of the service
MaxAdvance == 1801

market_hours_ttl_seconds == 300
after_hours_ttl_seconds == 1800
market_open_hour == 9
market_close_hour == 16

SecondsPerHour == 3600
SecondsPerDay == 86400

\* datetime.weekday() (Monday is 0) and datetime.hour
weekday(t) == (t \div SecondsPerDay) % 7

hour(t) == (t % SecondsPerDay) \div SecondsPerHour

TtlAlwaysAfterHours(t) == after_hours_ttl_seconds

\* CacheConfig.get_ttl_seconds
get_ttl_seconds(t) ==
    IF weekday(t) < 5 /\ market_open_hour <= hour(t) /\ hour(t) < market_close_hour
    THEN market_hours_ttl_seconds
    ELSE after_hours_ttl_seconds

\* the dict get returns for a row of the table prices
QuoteOf(row) == [symbol |-> row.symbol, regularMarketPrice |-> row.price]

\* get, line 116: the row is fresh at time t
IsFresh(rows, u, t) ==
    u \in DOMAIN rows /\ rows[u].updated_at >= t - get_ttl_seconds(t)

\* PriceCacheService.get at time t on the table rows: (cached, missing)
get(symbols, t, rows) ==
    IF symbols = <<>> THEN [cached |-> <<>>, missing |-> <<>>]
    ELSE LET normalized == [i \in 1..Len(symbols) |-> Upper(symbols[i])]
             fresh == {normalized[i] : i \in {j \in 1..Len(symbols) :
                                                IsFresh(rows, normalized[j], t)}}
         IN [cached |-> [u \in fresh |-> QuoteOf(rows[u])],
             missing |-> SelectSeq(normalized, LAMBDA u : ~IsFresh(rows, u, t))]

\* INSERT INTO prices ... ON CONFLICT (symbol) DO UPDATE
Upsert(rows, row) ==
    [u \in DOMAIN rows \cup {row.symbol} |-> IF u = row.symbol THEN row ELSE rows[u]]

RECURSIVE set(_, _, _)
\* PriceCacheService.set at time t: the table after the quotes are stored
set(quotes, t, rows) ==
    IF quotes = <<>> THEN rows
    ELSE LET symbol == Upper(Head(quotes).symbol)
         IN IF symbol = "" THEN set(Tail(quotes), t, rows)
            ELSE set(Tail(quotes), t,
                     Upsert(rows, [symbol |-> symbol,
                                   price |-> Head(quotes).regularMarketPrice,
                                   updated_at |-> t]))

\* the quotes a provider hands to set, and the symbols asked of get
QuoteDicts ==
    {[symbol |-> y, regularMarketPrice |-> v] : y \in {"AAPL", "msft", ""}, v \in {150, 151}}

RequestSymbols == {"AAPL", "aapl", "MSFT"}

\* the instants at which the service is called: shortly before the close
\* of a Monday, on a Saturday morning, and shortly before the open of a
\* Monday, each followed by the instants around the two TTLs later
StartInstants ==
    {15 * SecondsPerHour + 3000, 5 * SecondsPerDay + 10 * SecondsPerHour,
     8 * SecondsPerHour + 1800}

Instants ==
    {s0 + o : s0 \in StartInstants,
              o \in {0, market_hours_ttl_seconds - 1, market_hours_ttl_seconds,
                     market_hours_ttl_seconds + 1, after_hours_ttl_seconds,
                     after_hours_ttl_seconds + 1}}

\* cache.set(quotes)
CallSet(quotes) ==
    /\ quotes # <<>>
    /\ cache' = set(quotes, now, cache)
    /\ fn_in' = <<>> /\ fn_out' = <<>>
    /\ UNCHANGED <<reviews, nextId, recs, now, hs, faults, tVars, ex_in, ex_out>>

\* cache.get(symbols): the request and its answer
CallGet(symbols) ==
    /\ fn_in' = <<symbols>>
    /\ fn_out' = <<get(symbols, now, cache)>>
    /\ UNCHANGED <<cache, reviews, nextId, recs, now, hs, faults, tVars, ex_in, ex_out>>

\* SystemClock.now: the time of the next call
ClockAdvances(t) ==
    /\ t > now /\ t - now <= MaxAdvance
    /\ now' = t
    /\ fn_in' = <<>> /\ fn_out' = <<>>
    /\ UNCHANGED <<cache, reviews, nextId, recs, hs, faults, tVars, ex_in, ex_out>>

InitCache ==
    /\ reviews = <<>> /\ nextId = 1 /\ recs = <<>> /\ now \in StartInstants
    /\ hs = <<>> /\ faults = 0 /\ ledger = <<>> /\ runs = <<>>
    /\ ex_in = <<>> /\ ex_out = <<>> /\ fn_in = <<>> /\ fn_out = <<>> /\ cache = <<>>

NextCache ==
    \/ \E quotes \in SeqsUpTo(QuoteDicts, MaxQuotes) : CallSet(quotes)
    \/ \E symbols \in SeqsUpTo(RequestSymbols, MaxSymbols) : CallGet(symbols)
    \/ \E t \in Instants : ClockAdvances(t)

SpecCache == InitCache /\ [][NextCache]_vars

\* the values of a sequence
ValuesOf(q) == {q[i] : i \in 1..Len(q)}

\* the time is a weekday between the open and the close hour
MarketHours(t) ==
    /\ (t \div SecondsPerDay) % 7 \in 0..4
    /\ \E h \in market_open_hour..(market_close_hour - 1) :
          t - (t \div SecondsPerDay) * SecondsPerDay \in
              (h * SecondsPerHour)..((h + 1) * SecondsPerHour - 1)

=============================================================================
